---- MODULE Spec2Model ----
(***************************************************************************)
(* Model of the scraping and aggregation engine of getmovify-nextjs:       *)
(* the retry wrapper, the batch processor, the download-link extractors,   *)
(* the dedupe engine and the /api/movies and /api/search handlers.         *)
(***************************************************************************)
EXTENDS Integers, Sequences, FiniteSets, TLC

VARIABLES
    \* ---- withRetry (utils/scraper.ts) ----
    attempt,        \* loop counter of withRetry
    lastError,      \* withRetry's lastError
    invocations,    \* outcomes of the operation() calls made so far, in order
    sleeps,         \* the backoff delays slept so far (ms, without jitter), in order
    retryPc,        \* "invoke" | "backoff" | "returned" | "thrown"
    retryOut        \* the value returned or the error thrown by withRetry

retryVars == <<attempt, lastError, invocations, sleeps, retryPc, retryOut>>

VARIABLES
    \* ---- dedupeMoviesByTitleHighestQuality (utils/scraper.ts) ----
    dedupeMovies,   \* the argument 'movies'
    dedupeMap,      \* the Map 'map', as the sequence of its entries in insertion order
    dedupePos,      \* number of movies the for loop has consumed
    dedupeResult    \* <<the returned list>> once returned, <<>> before

dedupeVars == <<dedupeMovies, dedupeMap, dedupePos, dedupeResult>>

VARIABLES
    \* ---- download-link extraction of the three source adapters ----
    detailPage,     \* the parsed detail page ($) handed to the extractor
    downloadLinks   \* <<the returned DownloadLink list>> once returned, <<>> before

linkVars == <<detailPage, downloadLinks>>

VARIABLES
    \* ---- processMoviesWithConcurrency (utils/scraper.ts) ----
    items,            \* the argument 'items'
    concurrencyLimit, \* the argument 'concurrencyLimit'
    failingItems,     \* the items for which the processor rejects
    batchStart,       \* the loop variable i
    batchPromises,    \* the promises of the current batch, in batch order
    results,          \* the array 'results'
    processorCalls,   \* the (item, index) pairs the processor was called with
    completionOrder,  \* the indexes of the processor calls in the order they settled
    batchPc           \* "loop" | "await" | "pause" | "done"

batchVars == <<items, concurrencyLimit, failingItems, batchStart, batchPromises,
               results, processorCalls, completionOrder, batchPc>>

VARIABLES
    \* ---- GET /api/movies and GET /api/search ----
    request,        \* the request: route, search/q, page and details parameters
    handlerPc,      \* "start" | "validate" | "fanout" | "details" | "done"
    SKYBAP_URL,     \* the base URL getskyBapUrl resolved
    sources,        \* the promises of the source calls, in the order they are pushed
    movies,         \* the handler's 'movies'
    hasMore,        \* the handler's 'hasMore'
    joined,         \* the listings collected from the settled source calls
    detailedMovies, \* the detail stage's 'detailedMovies', when it has run
    fetches,        \* number of network requests issued, per target
    response        \* what the handler answered

VARIABLES
    \* ---- extractQualityFromText ----
    qualityVersion, \* which of the two definitions of the function is called
    qualityText,    \* the argument 'text'
    qualityResult   \* <<>> before the call, <<value returned>> after it

qualityVars == <<qualityVersion, qualityText, qualityResult>>

VARIABLES
    \* ---- RateLimiter ----
    maxRequests,    \* constructor argument
    windowMs,       \* constructor argument
    requests,       \* this.requests: the recorded times
    clock,          \* Date.now()
    calls           \* the waitIfNeeded calls made so far, with their state

limiterVars == <<maxRequests, windowMs, requests, clock, calls>>

VARIABLES
    \* ---- the search effect of the home page (app/page.tsx) ----
    searchQuery,       \* the state 'searchQuery': what the input holds
    debouncedQuery,    \* the state 'debouncedQuery' of useDebounce
    searchResults,     \* the state 'searchResults', with the query it answers
    isSearching,       \* the state 'isSearching'
    showSearchResults, \* the state 'showSearchResults'
    controllers,       \* the AbortControllers created so far: is each aborted?
    searchAbortRef,    \* searchAbortRef.current: a controller, or 0 for null
    effectCleanup,     \* the controller the last effect's cleanup aborts, or 0
    searches           \* the fetchSearch calls, one per controller: query, position

homeVars == <<searchQuery, debouncedQuery, searchResults, isSearching,
              showSearchResults, controllers, searchAbortRef, effectCleanup,
              searches>>

VARIABLES
    \* ---- the listing item parsers of the source adapters ----
    itemParser,     \* which parser the scrape loop calls
    itemElements,   \* the elements the listing page's selector matched
    itemMovies      \* <<the movies the loop pushed>> once done, <<>> before

parserVars == <<itemParser, itemElements, itemMovies>>

VARIABLES
    \* ---- the processors of the fetch...DetailsWithConcurrency functions ----
    mergeSource,    \* whose processor runs: "skybap" | "9xmoviie" | "filmywap"
    mergeListing,   \* the argument 'movie'
    mergeFetch,     \* what the detail fetch inside withRetry comes to
    mergeResult     \* <<the movie the processor resolves to>>, <<>> before

mergeVars == <<mergeSource, mergeListing, mergeFetch, mergeResult>>

handlerVars == <<request, handlerPc, SKYBAP_URL, sources, movies, hasMore, joined,
                 detailedMovies, fetches, response>>

vars == <<retryVars, dedupeVars, linkVars, batchVars, handlerVars, qualityVars,
          limiterVars, homeVars, parserVars, mergeVars>>

notRetryVars == <<dedupeVars, linkVars, batchVars, handlerVars, qualityVars, limiterVars,
    homeVars, parserVars, mergeVars>>
notDedupeVars == <<retryVars, linkVars, batchVars, handlerVars, qualityVars, limiterVars,
    homeVars, parserVars, mergeVars>>
notLinkVars == <<retryVars, dedupeVars, batchVars, handlerVars, qualityVars, limiterVars,
    homeVars, parserVars, mergeVars>>
notBatchVars == <<retryVars, dedupeVars, linkVars, handlerVars, qualityVars, limiterVars,
    homeVars, parserVars, mergeVars>>
notHandlerVars == <<retryVars, dedupeVars, linkVars, batchVars, qualityVars, limiterVars,
    homeVars, parserVars, mergeVars>>
notLimiterVars == <<retryVars, dedupeVars, linkVars, batchVars, handlerVars, qualityVars,
    homeVars, parserVars, mergeVars>>
notQualityVars == <<retryVars, dedupeVars, linkVars, batchVars, handlerVars, limiterVars,
    homeVars, parserVars, mergeVars>>
notHomeVars == <<retryVars, dedupeVars, linkVars, batchVars, handlerVars, qualityVars,
    limiterVars, parserVars, mergeVars>>
notParserVars == <<retryVars, dedupeVars, linkVars, batchVars, handlerVars, qualityVars,
    limiterVars, homeVars, mergeVars>>
notMergeVars == <<retryVars, dedupeVars, linkVars, batchVars, handlerVars, qualityVars,
    limiterVars, homeVars, parserVars>>

RetryIdle ==
    /\ attempt = 0
    /\ lastError = [cls |-> "none"]
    /\ invocations = <<>>
    /\ sleeps = <<>>
    /\ retryPc = "idle"
    /\ retryOut = [kind |-> "none"]

DedupeIdle ==
    /\ dedupeMovies = <<>>
    /\ dedupeMap = <<>>
    /\ dedupePos = 0
    /\ dedupeResult = <<>>

LinksIdle ==
    /\ detailPage = [site |-> "none"]
    /\ downloadLinks = <<>>

BatchIdle ==
    /\ items = <<>>
    /\ concurrencyLimit = 0
    /\ failingItems = {}
    /\ batchStart = 0
    /\ batchPromises = <<>>
    /\ results = <<>>
    /\ processorCalls = <<>>
    /\ completionOrder = <<>>
    /\ batchPc = "idle"

HandlerIdle ==
    /\ request = [route |-> "none"]
    /\ handlerPc = "idle"
    /\ SKYBAP_URL = <<>>
    /\ sources = <<>>
    /\ movies = <<>>
    /\ hasMore = FALSE
    /\ joined = <<>>
    /\ detailedMovies = <<>>
    /\ fetches = <<>>
    /\ response = [kind |-> "none"]

QualityIdle ==
    /\ qualityVersion = "none"
    /\ qualityText = <<>>
    /\ qualityResult = <<>>

LimiterIdle ==
    /\ maxRequests = 0
    /\ windowMs = 0
    /\ requests = <<>>
    /\ clock = 0
    /\ calls = <<>>

HomeIdle ==
    /\ searchQuery = <<>>
    /\ debouncedQuery = <<>>
    /\ searchResults = [from |-> "initial", movies |-> <<>>]
    /\ isSearching = FALSE
    /\ showSearchResults = FALSE
    /\ controllers = <<>>
    /\ searchAbortRef = 0
    /\ effectCleanup = 0
    /\ searches = <<>>

ParserIdle ==
    /\ itemParser = "none"
    /\ itemElements = <<>>
    /\ itemMovies = <<>>

MergeIdle ==
    /\ mergeSource = "none"
    /\ mergeListing = <<>>
    /\ mergeFetch = [kind |-> "none"]
    /\ mergeResult = <<>>

(***************************************************************************)
(* Errors.  Every error value carries its class, message, statusCode and   *)
(* originalError, so that "the same error" and "a new error wrapping it"   *)
(* are different values.                                                   *)
(***************************************************************************)
NoError == [cls |-> "none", message |-> "", statusCode |-> 0, originalError |-> <<>>]

\* new Error(message) and errors of foreign classes (AxiosError, TypeError)
GenericError(msg) ==
    [cls |-> "Error", message |-> msg, statusCode |-> 0, originalError |-> <<>>]

ScrapingError(msg, status, orig) ==
    [cls |-> "ScrapingError", message |-> msg, statusCode |-> status,
     originalError |-> <<orig>>]

ValidationError(msg) ==
    [cls |-> "ValidationError", message |-> msg, statusCode |-> 0,
     originalError |-> <<>>]

SCRAPER_CONFIG == [timeout |-> 15000, maxRetries |-> 3, retryDelay |-> 1000,
                   maxConcurrent |-> 100]

\* The failures the HTTP client's response interceptor produces.
AxiosTimeout == GenericError("ECONNABORTED")
AxiosStatus429 == GenericError("Request failed with status code 429")
AxiosNetwork == GenericError("ECONNRESET")

ClientError(kind) ==
    CASE kind = "timeout"   -> ScrapingError("Request timeout", 408, AxiosTimeout)
      [] kind = "forbidden" -> ScrapingError("Access forbidden", 403, GenericError("403"))
      [] kind = "notfound"  -> ScrapingError("Resource not found", 404, GenericError("404"))
      [] kind = "server500" -> ScrapingError("Server error", 500, GenericError("500"))
      [] kind = "server503" -> ScrapingError("Server error", 503, GenericError("503"))
      [] kind = "status429" -> AxiosStatus429
      [] kind = "network"   -> AxiosNetwork

FailureKinds == {"timeout", "forbidden", "notfound", "server500", "server503",
                 "status429", "network"}

\* new ScrapingError("Invalid response format received"): statusCode defaults to 500
InvalidFormat == ScrapingError("Invalid response format received", 500, NoError)

\* What one call of an operation handed to withRetry can do.
Return(v) == [kind |-> "return", value |-> v, error |-> NoError]
Throw(e) == [kind |-> "throw", value |-> "", error |-> e]

ThrownErrors ==
    {ClientError(k) : k \in FailureKinds}
        \cup {InvalidFormat, ValidationError("invalid")}

OperationOutcomes == {Return("value")} \cup {Throw(e) : e \in ThrownErrors}

\* lastError = error instanceof Error ? error : new Error(String(error)).
\* Every operation of the repository throws Error instances.
ToError(e) ==
    IF e.cls \in {"Error", "ScrapingError", "ValidationError"}
      THEN e
      ELSE GenericError("String(error)")

IsTerminalError_OnlyValidation(e) == e.cls = "ValidationError"

IsTerminalError_NoUpperBound(e) ==
    \/ e.cls = "ValidationError"
    \/ /\ e.cls = "ScrapingError"
       /\ e.statusCode >= 400

\* The condition of the 'if' that rethrows: validation errors and 4xx.
IsTerminalError(e) ==
    \/ e.cls = "ValidationError"
    \/ /\ e.cls = "ScrapingError"
       /\ e.statusCode >= 400
       /\ e.statusCode < 500

Pow2(n) == IF n = 0 THEN 1 ELSE IF n = 1 THEN 2 ELSE IF n = 2 THEN 4 ELSE 8

\* baseDelay * Math.pow(2, attempt), the deterministic part of the delay
BackoffDelay(att) == SCRAPER_CONFIG.retryDelay * Pow2(att)

ExhaustedError_FirstCause(last) ==
    ScrapingError("Operation failed after attempts", 500, invocations[1].error)

\* The error thrown after the loop.
ExhaustedError(last) == ScrapingError("Operation failed after attempts", 500, last)

\* what the catch block does with an error caught in attempt att: rethrow it,
\* leave the loop (break) or sleep and try again
RetryDecision(error, att) ==
    IF IsTerminalError(error)
      THEN "rethrow"
      ELSE IF att = SCRAPER_CONFIG.maxRetries THEN "exhausted" ELSE "backoff"

RetryInit ==
    /\ attempt = 0
    /\ lastError = GenericError("Unknown error")
    /\ invocations = <<>>
    /\ sleeps = <<>>
    /\ retryPc = "invoke"
    /\ retryOut = Return("")
    /\ DedupeIdle
    /\ LinksIdle
    /\ BatchIdle
    /\ HandlerIdle
    /\ QualityIdle
    /\ LimiterIdle
    /\ HomeIdle
    /\ ParserIdle
    /\ MergeIdle

\* One pass through the try/catch of the loop body, up to the sleep.
RetryInvoke ==
    /\ retryPc = "invoke"
    /\ attempt <= SCRAPER_CONFIG.maxRetries
    /\ \E o \in OperationOutcomes :
        /\ invocations' = Append(invocations, o)
        /\ IF o.kind = "return"
             THEN /\ retryPc' = "returned"
                  /\ retryOut' = o
                  /\ UNCHANGED lastError
             ELSE /\ lastError' = ToError(o.error)
                  /\ CASE RetryDecision(o.error, attempt) = "rethrow" ->
                              /\ retryPc' = "thrown"
                              /\ retryOut' = Throw(o.error)
                         [] RetryDecision(o.error, attempt) = "exhausted" ->
                              /\ retryPc' = "thrown"
                              /\ retryOut' = Throw(ExhaustedError(lastError'))
                         [] RetryDecision(o.error, attempt) = "backoff" ->
                              /\ retryPc' = "backoff"
                              /\ UNCHANGED retryOut
    /\ UNCHANGED <<attempt, sleeps>>
    /\ UNCHANGED notRetryVars

\* await sleep(delay), then attempt++
RetryBackoff ==
    /\ retryPc = "backoff"
    /\ sleeps' = Append(sleeps, BackoffDelay(attempt))
    /\ attempt' = attempt + 1
    /\ retryPc' = "invoke"
    /\ UNCHANGED <<lastError, invocations, retryOut>>
    /\ UNCHANGED notRetryVars

RetryNext == RetryInvoke \/ RetryBackoff

SpecRetry == RetryInit /\ [][RetryNext]_vars

(***************************************************************************)
(* Claims about withRetry, checked under SpecRetry.                        *)
(***************************************************************************)
\* A retryable failure in the words of the claims: a throw of something that
\* is neither a ValidationError nor a ScrapingError with statusCode 400..499.
RetryableFailure(o) ==
    /\ o.kind = "throw"
    /\ o.error.cls # "ValidationError"
    /\ ~(o.error.cls = "ScrapingError" /\ o.error.statusCode \in 400..499)

TerminalFailure(o) == o.kind = "throw" /\ ~RetryableFailure(o)

AllRetryableUpTo(n) ==
    /\ Len(invocations) >= n
    /\ \A k \in 1..n : RetryableFailure(invocations[k])

\* C3: an operation that fails twice with a retryable error and then succeeds
\* is invoked exactly 3 times and withRetry returns the value of the third
\* invocation (after one or two retryable failures withRetry is still
\* running, it has not thrown); and withRetry never invokes an operation
\* more than maxRetries + 1 = 4 times.
C3_FailTwiceThenSucceed ==
    /\ Len(invocations) <= SCRAPER_CONFIG.maxRetries + 1
    /\ \A n \in 1..2 :
          (Len(invocations) = n /\ AllRetryableUpTo(n))
              => retryPc \in {"backoff", "invoke"}
    /\ (/\ Len(invocations) >= 3
        /\ AllRetryableUpTo(2)
        /\ invocations[3].kind = "return")
          => /\ Len(invocations) = 3
             /\ retryPc = "returned"
             /\ retryOut = invocations[3]

C3_Witness ==
    /\ retryPc = "returned"
    /\ Len(invocations) = 3
    /\ AllRetryableUpTo(2)
    /\ Len(sleeps) = 2

\* C4: once an invocation fails with a ValidationError or a ScrapingError with
\* statusCode 400..499, that invocation is the last one, no backoff sleep
\* follows it (the sleeps are those of the earlier failures only), and
\* withRetry has thrown that very error, not a new error wrapping it.
C4_TerminalNotRetried ==
    \A k \in 1..Len(invocations) :
        TerminalFailure(invocations[k])
            => /\ k = Len(invocations)
               /\ Len(sleeps) = k - 1
               /\ retryPc = "thrown"
               /\ retryOut = Throw(invocations[k].error)

C4_Witness ==
    /\ retryPc = "thrown"
    /\ Len(invocations) = 2
    /\ RetryableFailure(invocations[1])
    /\ invocations[2].error.cls = "ScrapingError"
    /\ invocations[2].error.statusCode = 404
    /\ retryOut.error = invocations[2].error

\* C5: when all maxRetries + 1 invocations failed with retryable errors,
\* withRetry has thrown a ScrapingError with statusCode 500 whose
\* originalError is the error of the last invocation, and it slept
\* maxRetries times only: there is no sleep after the final failure.
C5_ExhaustedThrowsLastCause ==
    AllRetryableUpTo(SCRAPER_CONFIG.maxRetries + 1)
        => /\ retryPc = "thrown"
           /\ retryOut.kind = "throw"
           /\ retryOut.error.cls = "ScrapingError"
           /\ retryOut.error.statusCode = 500
           /\ retryOut.error.originalError =
                  <<invocations[SCRAPER_CONFIG.maxRetries + 1].error>>
           /\ Len(sleeps) = SCRAPER_CONFIG.maxRetries
           /\ Len(invocations) = SCRAPER_CONFIG.maxRetries + 1

C5_Witness ==
    /\ AllRetryableUpTo(SCRAPER_CONFIG.maxRetries + 1)
    /\ retryPc = "thrown"
    /\ invocations[1].error # invocations[4].error
    /\ sleeps = <<1000, 2000, 4000>>


(***************************************************************************)
(* Text.  A string is a sequence of symbols; a symbol is a character or a   *)
(* word that the code only ever treats as a whole.                          *)
(***************************************************************************)
\* String.prototype.toLowerCase, symbol by symbol
LowerSym(c) ==
    CASE c = "A" -> "a"
      [] c = "B" -> "b"
      [] c = "M" -> "m"
      [] c = "UNRATED" -> "unrated"
      [] c = "Unrated" -> "unrated"
      [] c = "XXX" -> "xxx"
      [] c = "Adult" -> "adult"
      [] OTHER -> c

ToLowerCase(t) == [i \in 1..Len(t) |-> LowerSym(t[i])]

IsSpace(c) == c = " "

RECURSIVE TrimStart(_)
TrimStart(t) ==
    IF t # <<>> /\ IsSpace(Head(t)) THEN TrimStart(Tail(t)) ELSE t

RECURSIVE TrimEnd(_)
TrimEnd(t) ==
    IF t # <<>> /\ IsSpace(t[Len(t)]) THEN TrimEnd(SubSeq(t, 1, Len(t) - 1)) ELSE t

\* String.prototype.trim
Trim(t) == TrimEnd(TrimStart(t))

\* String.prototype.indexOf for a one-symbol needle, 1-based; 0 when absent
IndexOf(t, c) ==
    IF \E i \in 1..Len(t) : t[i] = c
      THEN CHOOSE i \in 1..Len(t) : t[i] = c /\ \A j \in 1..(i - 1) : t[j] # c
      ELSE 0

(***************************************************************************)
(* dedupeMoviesByTitleHighestQuality                                       *)
(***************************************************************************)
Undefined == "<undefined>"

getBaseTitle_NoTrim(title) ==
    LET idx == IndexOf(title, "(")
    IN  ToLowerCase(IF idx # 0 THEN SubSeq(title, 1, idx - 1) ELSE title)

getBaseTitle(title) ==
    LET idx == IndexOf(title, "(")
    IN  ToLowerCase(Trim(IF idx # 0 THEN SubSeq(title, 1, idx - 1) ELSE title))

qualityOrder ==
    <<"4K", "2160P", "1440P", "1080P", "720P", "480P", "360P",
      "BLURAY", "WEBRIP", "HDRIP", "HDTV", "DVDRIP", "HD", "SD">>

\* String.prototype.toUpperCase on the quality strings that occur
ToUpperCase(q) ==
    CASE q = "4k" -> "4K"
      [] q = "1080p" -> "1080P"
      [] q = "720p" -> "720P"
      [] q = "480p" -> "480P"
      [] q = "hd" -> "HD"
      [] q = "HDRip" -> "HDRIP"
      [] q = "cam" -> "CAM"
      [] q = "2160p" -> "2160P"
      [] q = "1440p" -> "1440P"
      [] q = "360p" -> "360P"
      [] q = "BluRay" -> "BLURAY"
      [] q = "WEBRip" -> "WEBRIP"
      [] q = "hdrip" -> "HDRIP"
      [] q = "DVDRip" -> "DVDRIP"
      [] q = "Low Quality" -> "LOW QUALITY"
      [] q = "Movie" -> "MOVIE"
      [] q = "Name" -> "NAME"
      [] OTHER -> q

getQualityRank_OneLastRank(quality) ==
    IF quality = Undefined \/ quality = ""
      THEN 99
      ELSE IF \E i \in 1..Len(qualityOrder) : qualityOrder[i] = ToUpperCase(quality)
             THEN (CHOOSE i \in 1..Len(qualityOrder) :
                        qualityOrder[i] = ToUpperCase(quality)) - 1
             ELSE 99

getQualityRank(quality) ==
    IF quality = Undefined \/ quality = ""
      THEN 100
      ELSE IF \E i \in 1..Len(qualityOrder) : qualityOrder[i] = ToUpperCase(quality)
             THEN (CHOOSE i \in 1..Len(qualityOrder) :
                        qualityOrder[i] = ToUpperCase(quality)) - 1
             ELSE 99

ReplacesExisting_WorseWins(movie, existing) ==
    getQualityRank(movie.quality) > getQualityRank(existing.quality)

ReplacesExisting_TieReplaces(movie, existing) ==
    getQualityRank(movie.quality) <= getQualityRank(existing.quality)

\* the condition under which a later movie replaces the stored one
ReplacesExisting(movie, existing) ==
    getQualityRank(movie.quality) < getQualityRank(existing.quality)

MapHas(map, key) == \E i \in 1..Len(map) : map[i].key = key

MapGet(map, key) == map[CHOOSE i \in 1..Len(map) : map[i].key = key].value

\* Map.prototype.set: a new key is appended, an existing key keeps its place
MapSet(map, key, value) ==
    IF MapHas(map, key)
      THEN [i \in 1..Len(map) |->
              IF map[i].key = key THEN [key |-> key, value |-> value] ELSE map[i]]
      ELSE Append(map, [key |-> key, value |-> value])

\* Array.from(map.values())
MapValues(map) == [i \in 1..Len(map) |-> map[i].value]

\* one iteration of the for loop
DedupeStep(map, movie) ==
    LET base == getBaseTitle(movie.title)
    IN  IF ~MapHas(map, base)
          THEN MapSet(map, base, movie)
          ELSE IF ReplacesExisting(movie, MapGet(map, base))
                 THEN MapSet(map, base, movie)
                 ELSE map

RECURSIVE DedupeLoop(_, _)
DedupeLoop(map, list) ==
    IF list = <<>> THEN map ELSE DedupeLoop(DedupeStep(map, Head(list)), Tail(list))

dedupeMoviesByTitleHighestQuality(list) == MapValues(DedupeLoop(<<>>, list))

MaxDedupeLen == 3

DedupeTitles ==
    {<<"A">>, <<"a", " ">>, <<" ", "a", "(", "b">>, <<"B", "b">>, <<"(", "a">>}

DedupeQualities == {Undefined, "4K", "720p", "HD", "cam"}

\* the movies a caller can hand in: entry i has link i
DedupeInputs ==
    UNION {[1..n -> DedupeTitles \X DedupeQualities] : n \in 0..MaxDedupeLen}

MovieAt(f, i) == [title |-> f[i][1], quality |-> f[i][2], link |-> i]

DedupeInit ==
    /\ \E f \in DedupeInputs :
          dedupeMovies = [i \in 1..Len(f) |-> MovieAt(f, i)]
    /\ dedupeMap = <<>>
    /\ dedupePos = 0
    /\ dedupeResult = <<>>
    /\ RetryIdle
    /\ LinksIdle
    /\ BatchIdle
    /\ HandlerIdle
    /\ QualityIdle
    /\ LimiterIdle
    /\ HomeIdle
    /\ ParserIdle
    /\ MergeIdle

\* for (const movie of movies) { ... }
DedupeIterate ==
    /\ dedupeResult = <<>>
    /\ dedupePos < Len(dedupeMovies)
    /\ dedupeMap' = DedupeStep(dedupeMap, dedupeMovies[dedupePos + 1])
    /\ dedupePos' = dedupePos + 1
    /\ UNCHANGED <<dedupeMovies, dedupeResult>>
    /\ UNCHANGED notDedupeVars

\* return Array.from(map.values())
DedupeReturn ==
    /\ dedupeResult = <<>>
    /\ dedupePos = Len(dedupeMovies)
    /\ dedupeResult' = <<MapValues(dedupeMap)>>
    /\ UNCHANGED <<dedupeMovies, dedupeMap, dedupePos>>
    /\ UNCHANGED notDedupeVars

DedupeNext == DedupeIterate \/ DedupeReturn

SpecDedupe == DedupeInit /\ [][DedupeNext]_vars

(***************************************************************************)
(* Claims about dedupe, checked under SpecDedupe.                          *)
(***************************************************************************)
DedupeReturned == dedupeResult # <<>>

Kept == dedupeResult[1]

IsKept(m) == \E i \in 1..Len(Kept) : Kept[i] = m

\* C2: the returned list has at most one entry per base-title key, every
\* returned entry is an input entry, and every input entry that was
\* discarded has a kept entry with the same key whose quality rank is less
\* than or equal to its own.
C2_OnePerKeyBestRank ==
    DedupeReturned =>
        /\ \A i, j \in 1..Len(Kept) :
              getBaseTitle(Kept[i].title) = getBaseTitle(Kept[j].title) => i = j
        /\ \A i \in 1..Len(Kept) :
              \E k \in 1..Len(dedupeMovies) : dedupeMovies[k] = Kept[i]
        /\ \A k \in 1..Len(dedupeMovies) :
              ~IsKept(dedupeMovies[k]) =>
                \E i \in 1..Len(Kept) :
                    /\ getBaseTitle(Kept[i].title) = getBaseTitle(dedupeMovies[k].title)
                    /\ getQualityRank(Kept[i].quality)
                          <= getQualityRank(dedupeMovies[k].quality)

\* three entries with one key and three different ranks, the best one last
C2_Witness ==
    /\ DedupeReturned
    /\ Len(dedupeMovies) = 3
    /\ Len(Kept) = 1
    /\ Kept[1] = dedupeMovies[3]
    /\ getQualityRank(dedupeMovies[1].quality) > getQualityRank(dedupeMovies[2].quality)
    /\ getQualityRank(dedupeMovies[2].quality) > getQualityRank(dedupeMovies[3].quality)
    /\ dedupeMovies[1].title # dedupeMovies[2].title

(***************************************************************************)
(* Download-link extraction: SkyBap extractDownloadLinks, FilmyWap          *)
(* extractDownloadLinksFilmyWap, 9xMoviie parseDownloadLinks.               *)
(***************************************************************************)
IsWhitespace(c) == c = " " \/ c = "\n"

Includes(t, c) == \E i \in 1..Len(t) : t[i] = c

RECURSIVE DropWhitespace(_)
DropWhitespace(t) ==
    IF t # <<>> /\ IsWhitespace(Head(t)) THEN DropWhitespace(Tail(t)) ELSE t

\* .replace(/^.*>\s*/, ""): up to the last '>' of the first line, and the
\* whitespace that follows it
StripArrow(t) ==
    LET nl == IndexOf(t, "\n")
        lineEnd == IF nl = 0 THEN Len(t) ELSE nl - 1
        gts == {i \in 1..lineEnd : t[i] = ">"}
    IN  IF gts = {}
          THEN t
          ELSE LET last == CHOOSE i \in gts : \A j \in gts : j <= i
               IN  DropWhitespace(SubSeq(t, last + 1, Len(t)))

\* .replace(/\s+/g, " ")
RECURSIVE NormalizeWhitespace(_)
NormalizeWhitespace(t) ==
    IF t = <<>>
      THEN <<>>
      ELSE IF IsWhitespace(Head(t))
             THEN <<" ">> \o NormalizeWhitespace(DropWhitespace(t))
             ELSE <<Head(t)>> \o NormalizeWhitespace(Tail(t))

sanitizeText(text) == Trim(NormalizeWhitespace(StripArrow(text)))

\* new URL(url) succeeds: the text starts with a scheme
validateUrl(url) == url # <<>> /\ Head(url) \in {"https://", "http://"}

StartsWith(t, c) == t # <<>> /\ Head(t) = c

\* parseDownloadLink: the link it returns (<<>> for null) and the new processedUrls
parseDownloadLink_NoSeenCheck(a, processedUrls) ==
    LET href == a.href
        text == sanitizeText(a.text)
    IN  IF href = <<>> \/ text = <<>>
          THEN [link |-> <<>>, processedUrls |-> processedUrls]
          ELSE IF ~validateUrl(href) /\ ~StartsWith(href, "/")
                 THEN [link |-> <<>>, processedUrls |-> processedUrls \cup {href}]
                 ELSE [link |-> <<[label |-> text, url |-> href]>>,
                       processedUrls |-> processedUrls \cup {href}]

parseDownloadLink(a, processedUrls) ==
    LET href == a.href
        text == sanitizeText(a.text)
    IN  IF href = <<>> \/ text = <<>>
          THEN [link |-> <<>>, processedUrls |-> processedUrls]
          ELSE IF href \in processedUrls
                 THEN [link |-> <<>>, processedUrls |-> processedUrls]
                 ELSE IF ~validateUrl(href) /\ ~StartsWith(href, "/")
                        THEN [link |-> <<>>, processedUrls |-> processedUrls \cup {href}]
                        ELSE [link |-> <<[label |-> text, url |-> href]>>,
                              processedUrls |-> processedUrls \cup {href}]

\* $(selector).each(... parseDownloadLink ... push): acc is the pair of
\* downloadLinks and processedUrls
RECURSIVE CollectLinks(_, _)
CollectLinks(anchors, acc) ==
    IF anchors = <<>>
      THEN acc
      ELSE LET r == parseDownloadLink(Head(anchors), acc.processedUrls)
           IN  CollectLinks(Tail(anchors),
                            [links |-> acc.links \o r.link,
                             processedUrls |-> r.processedUrls])

linkQualityOrder == <<"4K", "2160p", "1440p", "1080p", "720p", "480p", "360p">>

\* qualityOrder.findIndex((q) => label.includes(q)), 0-based, -1 when none
QualityIndex(label) ==
    LET hits == {i \in 1..Len(linkQualityOrder) : Includes(label, linkQualityOrder[i])}
    IN  IF hits = {} THEN -1 ELSE (CHOOSE i \in hits : \A j \in hits : i <= j) - 1

CompareLinks_RankedOnly(a, b) ==
    LET aIndex == QualityIndex(a.label)
        bIndex == QualityIndex(b.label)
    IN  IF aIndex # -1 /\ bIndex # -1 THEN aIndex - bIndex ELSE 0

\* the comparator handed to sort
CompareLinks(a, b) ==
    LET aIndex == QualityIndex(a.label)
        bIndex == QualityIndex(b.label)
    IN  IF aIndex # -1 /\ bIndex # -1 THEN aIndex - bIndex
        ELSE IF aIndex # -1 THEN -1
        ELSE IF bIndex # -1 THEN 1
        ELSE 0

\* insert x behind the last element that does not sort after it
RECURSIVE InsertSorted(_, _)
InsertSorted(sorted, x) ==
    IF sorted = <<>>
      THEN <<x>>
      ELSE IF CompareLinks(sorted[Len(sorted)], x) > 0
             THEN Append(InsertSorted(SubSeq(sorted, 1, Len(sorted) - 1), x),
                         sorted[Len(sorted)])
             ELSE Append(sorted, x)

\* Array.prototype.sort with the comparator above; the sort is stable
RECURSIVE SortLinks(_)
SortLinks(links) ==
    IF links = <<>>
      THEN <<>>
      ELSE InsertSorted(SortLinks(SubSeq(links, 1, Len(links) - 1)), links[Len(links)])

\* the fallback selectors, in the order they are tried
fallbackSelectors ==
    <<"download-links", "movie-downloads", "download-section",
      "download", ".mp4", ".mkv", ".avi">>

\* the anchors of the page a selector matches, in document order
MatchSelector(page, sel) ==
    LET Matches(a) ==
          IF sel \in {"download-links", "movie-downloads", "download-section"}
            THEN a.within = sel
            ELSE Includes(a.href, sel)
    IN  SelectSeq(page, Matches)

\* for (const selector of fallbackSelectors) { ...; if (length > 0) break; }
RECURSIVE TryFallbacks(_, _, _)
TryFallbacks(page, k, acc) ==
    IF k > Len(fallbackSelectors)
      THEN acc
      ELSE LET r == CollectLinks(MatchSelector(page, fallbackSelectors[k]), acc)
           IN  IF Len(r.links) > 0 THEN r ELSE TryFallbacks(page, k + 1, r)

\* SkyBap extractDownloadLinks, up to the sort: the links pushed
collectDownloadLinks(page) ==
    LET InBolly(a) == a.within = "Bolly"
        primary == CollectLinks(SelectSeq(page, InBolly),
                                [links |-> <<>>, processedUrls |-> {}])
        collected == IF Len(primary.links) = 0
                       THEN TryFallbacks(page, 1, primary)
                       ELSE primary
    IN  collected.links

\* SkyBap extractDownloadLinks
extractDownloadLinks(page) == SortLinks(collectDownloadLinks(page))

\* FilmyWap: $("div.listed_new").each(...)
RECURSIVE CollectFilmyWap(_, _)
CollectFilmyWap(divs, acc) ==
    IF divs = <<>>
      THEN acc
      ELSE LET href == Head(divs).href
               label == Trim(Head(divs).text)
           IN  IF href # <<>> /\ label # <<>> /\ href \notin acc.processedUrls
                 THEN CollectFilmyWap(Tail(divs),
                        [links |-> Append(acc.links, [url |-> href, label |-> label]),
                         processedUrls |-> acc.processedUrls \cup {href}])
                 ELSE CollectFilmyWap(Tail(divs), acc)

extractDownloadLinksFilmyWap(page) ==
    SortLinks(CollectFilmyWap(page, [links |-> <<>>, processedUrls |-> {}]).links)

\* linkText.match(/\[(.*?)\]/): the text between the first '[' and the
\* first ']' behind it; <<>> when there is no such pair
BracketSize(linkText) ==
    LET opens == {i \in 1..Len(linkText) :
                    /\ linkText[i] = "["
                    /\ \E j \in (i + 1)..Len(linkText) : linkText[j] = "]"}
    IN  IF opens = {}
          THEN <<>>
          ELSE LET o == CHOOSE i \in opens : \A j \in opens : i <= j
                   c == CHOOSE j \in (o + 1)..Len(linkText) :
                            /\ linkText[j] = "]"
                            /\ \A k \in (o + 1)..(j - 1) : linkText[k] # "]"
               IN  SubSeq(linkText, o + 1, c - 1)

\* .replace(/\s+\(/g, "(").replace(/\(\s+/g, "(") on whitespace-normalized text
RECURSIVE TightenParens(_)
TightenParens(t) ==
    IF t = <<>>
      THEN <<>>
      ELSE IF IsWhitespace(Head(t)) /\ DropWhitespace(t) # <<>>
                /\ Head(DropWhitespace(t)) = "("
             THEN TightenParens(DropWhitespace(t))
             ELSE IF Head(t) = "("
                    THEN <<"(">> \o TightenParens(DropWhitespace(Tail(t)))
                    ELSE <<Head(t)>> \o TightenParens(Tail(t))

NormalizeLabel(baseLabel) == Trim(TightenParens(NormalizeWhitespace(baseLabel)))

\* 9xMoviie: one (label div, link div) pair of the loop
Parse9xPair(pair, acc) ==
    LET label == sanitizeText(pair.label)
        href == pair.href
        linkText == sanitizeText(pair.linkText)
        size == BracketSize(linkText)
        baseLabel == IF size # <<>> THEN label \o <<" ", "(">> \o size \o <<")">>
                                     ELSE label
        normalizedLabel == NormalizeLabel(baseLabel)
    IN  IF label # <<>> /\ href # <<>> /\ linkText # <<>>
          THEN IF normalizedLabel \in DOMAIN acc.labelCounts
                 THEN [links |-> Append(acc.links,
                                   [label |-> normalizedLabel \o <<" ", "Backup">>,
                                    url |-> href]),
                       labelCounts |->
                           [acc.labelCounts EXCEPT ![normalizedLabel] = @ + 1]]
                 ELSE [links |-> Append(acc.links,
                                   [label |-> normalizedLabel, url |-> href]),
                       labelCounts |-> acc.labelCounts @@ (normalizedLabel :> 1)]
          ELSE acc

RECURSIVE Parse9xPairs(_, _)
Parse9xPairs(pairs, acc) ==
    IF pairs = <<>> THEN acc ELSE Parse9xPairs(Tail(pairs), Parse9xPair(Head(pairs), acc))

\* 9xMoviie parseDownloadLinks.  The page lists the .description.tCenter
\* divs as (label div, link div) pairs; a last div without partner is not
\* read by the loop (i < length - 1).
parseDownloadLinks(page) ==
    Parse9xPairs(page, [links |-> <<>>, labelCounts |-> <<>>]).links

MaxAnchors == 2
Max9xPairs == 3

Hrefs ==
    {<<>>, <<"https://", "a">>, <<"https://", "b", ".mp4">>,
     <<"/", "download">>, <<"a", ".mkv">>}

AnchorTexts == {<<>>, <<"Link">>, <<"x", ">", " ", "720p">>, <<" ", "1080p", "HD">>}

SkyBapAnchors ==
    [href : Hrefs, text : AnchorTexts, within : {"Bolly", "download-links", "none"}]

FilmyWapDivs == [href : Hrefs, text : AnchorTexts]

NineXPairs ==
    [label : {<<>>, <<"720p">>, <<"720p", " ", " ">>},
     href : {<<>>, <<"https://", "a">>, <<"https://", "b">>},
     linkText : {<<>>, <<"Download">>, <<"Download", " ", "[", "1GB", "]">>}]

SeqsUpTo(S, n) == UNION {[1..k -> S] : k \in 0..n}

LinksInit ==
    /\ \/ \E as \in SeqsUpTo(SkyBapAnchors, MaxAnchors) :
             detailPage = [site |-> "skybap", page |-> as]
       \/ \E ds \in SeqsUpTo(FilmyWapDivs, MaxAnchors) :
             detailPage = [site |-> "filmywap", page |-> ds]
       \/ \E ps \in SeqsUpTo(NineXPairs, Max9xPairs) :
             detailPage = [site |-> "9xmoviie", page |-> ps]
    /\ downloadLinks = <<>>
    /\ RetryIdle
    /\ DedupeIdle
    /\ BatchIdle
    /\ HandlerIdle
    /\ QualityIdle
    /\ LimiterIdle
    /\ HomeIdle
    /\ ParserIdle
    /\ MergeIdle

ExtractSkyBap ==
    /\ detailPage.site = "skybap"
    /\ downloadLinks = <<>>
    /\ downloadLinks' = <<extractDownloadLinks(detailPage.page)>>
    /\ UNCHANGED detailPage
    /\ UNCHANGED notLinkVars

ExtractFilmyWap ==
    /\ detailPage.site = "filmywap"
    /\ downloadLinks = <<>>
    /\ downloadLinks' = <<extractDownloadLinksFilmyWap(detailPage.page)>>
    /\ UNCHANGED detailPage
    /\ UNCHANGED notLinkVars

Parse9x ==
    /\ detailPage.site = "9xmoviie"
    /\ downloadLinks = <<>>
    /\ downloadLinks' = <<parseDownloadLinks(detailPage.page)>>
    /\ UNCHANGED detailPage
    /\ UNCHANGED notLinkVars

LinksNext == ExtractSkyBap \/ ExtractFilmyWap \/ Parse9x

SpecLinks == LinksInit /\ [][LinksNext]_vars

(***************************************************************************)
(* Claims about download links, checked under SpecLinks.                   *)
(***************************************************************************)
LinksReturned == downloadLinks # <<>>

NoDuplicateUrl(links) ==
    \A i, j \in 1..Len(links) : links[i].url = links[j].url => i = j

\* C1: in the download-link list returned by the detail fetch of any source
\* adapter (SkyBap, FilmyWap, 9xMoviie) no two entries have the same url.
C1_NoDuplicateUrls == LinksReturned => NoDuplicateUrl(downloadLinks[1])

\* the same statement for the two adapters that keep a processedUrls set
C1_NoDuplicateUrls_SkyBapFilmyWap ==
    (LinksReturned /\ detailPage.site \in {"skybap", "filmywap"})
        => NoDuplicateUrl(downloadLinks[1])

C1_Witness_SkyBapDuplicateDropped ==
    /\ LinksReturned
    /\ detailPage.site = "skybap"
    /\ Len(detailPage.page) = 2
    /\ detailPage.page[1].href = detailPage.page[2].href
    /\ Len(downloadLinks[1]) = 1

(***************************************************************************)
(* processMoviesWithConcurrency                                            *)
(***************************************************************************)
Min(a, b) == IF a < b THEN a ELSE b

actualLimit_WholeList == Len(items)

\* const actualLimit = Math.min(concurrencyLimit, items.length)
actualLimit == Min(concurrencyLimit, Len(items))

\* items.slice(from, to) with 0-based bounds, from >= 0
Slice(seq, from, to) == SubSeq(seq, from + 1, Min(to, Len(seq)))

\* what the processor's promise for an item settles to
ProcessorResult(item) == [item |-> item]

FulfilledValues_AllOrNothing(promises) ==
    IF \E k \in 1..Len(promises) : promises[k].state = "rejected"
      THEN <<>>
      ELSE [k \in 1..Len(promises) |-> promises[k].value]

\* the values of the fulfilled promises in the order the promises settled
FulfilledValues_InCompletionOrder(promises) ==
    LET Fulfilled(idx) ==
            \E k \in 1..Len(promises) :
                promises[k].index = idx /\ promises[k].state = "fulfilled"
        order == SelectSeq(completionOrder, Fulfilled)
    IN  [n \in 1..Len(order) |->
            (CHOOSE p \in {promises[k] : k \in 1..Len(promises)} :
                 p.index = order[n]).value]

\* batchResults.forEach: the values of the fulfilled promises, in batch order
FulfilledValues(promises) ==
    LET IsFulfilled(p) == p.state = "fulfilled"
        fulfilled == SelectSeq(promises, IsFulfilled)
    IN  [k \in 1..Len(fulfilled) |-> fulfilled[k].value]

MaxItems == 5

BatchInit ==
    /\ \E n \in 0..MaxItems : items = [k \in 1..n |-> k]
    /\ concurrencyLimit \in 0..(MaxItems + 1)
    /\ failingItems \in SUBSET (1..Len(items))
    /\ batchStart = 0
    /\ batchPromises = <<>>
    /\ results = <<>>
    /\ processorCalls = <<>>
    /\ completionOrder = <<>>
    /\ batchPc = "loop"
    /\ RetryIdle
    /\ DedupeIdle
    /\ LinksIdle
    /\ HandlerIdle
    /\ QualityIdle
    /\ LimiterIdle
    /\ HomeIdle
    /\ ParserIdle
    /\ MergeIdle

\* const batch = items.slice(i, i + actualLimit); batch.map(async ...): the
\* callback of position 0 calls the processor at once, the others sleep first
BatchStartBatch ==
    /\ batchPc = "loop"
    /\ batchStart < Len(items)
    /\ LET batch == Slice(items, batchStart, batchStart + actualLimit)
       IN  /\ batchPromises' =
                 [k \in 1..Len(batch) |->
                    [item |-> batch[k], index |-> batchStart + (k - 1),
                     state |-> IF k = 1 THEN "processing" ELSE "sleeping",
                     value |-> ProcessorResult(0)]]
           /\ processorCalls' =
                 IF Len(batch) > 0
                   THEN Append(processorCalls,
                               [item |-> batch[1], index |-> batchStart])
                   ELSE processorCalls
    /\ batchPc' = "await"
    /\ UNCHANGED <<items, concurrencyLimit, failingItems, batchStart, results,
                   completionOrder>>
    /\ UNCHANGED notBatchVars

\* sleep(100 * index) is over: the timers expire in the order of index
BatchWake(k) ==
    /\ batchPc = "await"
    /\ k \in 1..Len(batchPromises)
    /\ batchPromises[k].state = "sleeping"
    /\ \A j \in 1..(k - 1) : batchPromises[j].state # "sleeping"
    /\ batchPromises' = [batchPromises EXCEPT ![k].state = "processing"]
    /\ processorCalls' =
          Append(processorCalls,
                 [item |-> batchPromises[k].item, index |-> batchPromises[k].index])
    /\ UNCHANGED <<items, concurrencyLimit, failingItems, batchStart, results,
                   completionOrder, batchPc>>
    /\ UNCHANGED notBatchVars

\* the processor's promise settles; a rejection is logged and rethrown
BatchSettle(k) ==
    /\ batchPc = "await"
    /\ k \in 1..Len(batchPromises)
    /\ batchPromises[k].state = "processing"
    /\ batchPromises' =
          [batchPromises EXCEPT
             ![k].state = IF batchPromises[k].item \in failingItems
                            THEN "rejected" ELSE "fulfilled",
             ![k].value = IF batchPromises[k].item \in failingItems
                            THEN ProcessorResult(0)
                            ELSE ProcessorResult(batchPromises[k].item)]
    /\ completionOrder' = Append(completionOrder, batchPromises[k].index)
    /\ UNCHANGED <<items, concurrencyLimit, failingItems, batchStart, results,
                   processorCalls, batchPc>>
    /\ UNCHANGED notBatchVars

\* await Promise.allSettled(batchPromises) resumes; the fulfilled values are
\* pushed; then either the pause between batches or the loop increment
BatchCollect ==
    /\ batchPc = "await"
    /\ \A k \in 1..Len(batchPromises) :
          batchPromises[k].state \in {"fulfilled", "rejected"}
    /\ results' = results \o FulfilledValues(batchPromises)
    /\ batchPromises' = <<>>
    /\ IF batchStart + actualLimit < Len(items)
         THEN batchPc' = "pause" /\ UNCHANGED batchStart
         ELSE batchPc' = "loop" /\ batchStart' = batchStart + actualLimit
    /\ UNCHANGED <<items, concurrencyLimit, failingItems, processorCalls,
                   completionOrder>>
    /\ UNCHANGED notBatchVars

\* await sleep(500); i += actualLimit
BatchPause ==
    /\ batchPc = "pause"
    /\ batchStart' = batchStart + actualLimit
    /\ batchPc' = "loop"
    /\ UNCHANGED <<items, concurrencyLimit, failingItems, batchPromises, results,
                   processorCalls, completionOrder>>
    /\ UNCHANGED notBatchVars

\* the loop condition fails: return results
BatchReturn ==
    /\ batchPc = "loop"
    /\ batchStart >= Len(items)
    /\ batchPc' = "done"
    /\ UNCHANGED <<items, concurrencyLimit, failingItems, batchStart, batchPromises,
                   results, processorCalls, completionOrder>>
    /\ UNCHANGED notBatchVars

BatchNext ==
    \/ BatchStartBatch
    \/ \E k \in 1..(MaxItems + 1) : BatchWake(k)
    \/ \E k \in 1..(MaxItems + 1) : BatchSettle(k)
    \/ BatchCollect
    \/ BatchPause
    \/ BatchReturn

SpecBatch == BatchInit /\ [][BatchNext]_vars

(***************************************************************************)
(* Claims about the batch processor, checked under SpecBatch.              *)
(***************************************************************************)
ResultsFor(item) == {k \in 1..Len(results) : results[k] = ProcessorResult(item)}

\* C6: when processMoviesWithConcurrency has returned for N items, a limit
\* K < N and a processor that fails for exactly one item, the result list
\* has exactly N - 1 entries: none for the failing item and exactly one for
\* every other item, in whichever batch that item was.
C6_OneFailureDropsOneResult ==
    (/\ batchPc = "done"
     /\ concurrencyLimit < Len(items)
     /\ Cardinality(failingItems) = 1)
        => /\ Len(results) = Len(items) - 1
           /\ \A x \in 1..Len(items) :
                 Cardinality(ResultsFor(x)) = IF x \in failingItems THEN 0 ELSE 1

\* 5 items in batches of 2, the failing item in the middle batch
C6_Witness ==
    /\ batchPc = "done"
    /\ Len(items) = 5
    /\ concurrencyLimit = 2
    /\ failingItems = {3}
    /\ Len(results) = 4
    /\ Len(processorCalls) = 5

(***************************************************************************)
(* The request handlers GET /api/movies (getListings) and GET /api/search  *)
(* (searchMovies).                                                         *)
(***************************************************************************)
\* A query string is a sequence of runs [ch, n]: n times the character ch.
QueryLength(q) ==
    LET RECURSIVE Sum(_)
        Sum(r) == IF r = <<>> THEN 0 ELSE Head(r).n + Sum(Tail(r))
    IN  Sum(q)

RECURSIVE QueryTrimStart(_)
QueryTrimStart(q) ==
    IF q # <<>> /\ Head(q).ch = " " THEN QueryTrimStart(Tail(q)) ELSE q

RECURSIVE QueryTrimEnd(_)
QueryTrimEnd(q) ==
    IF q # <<>> /\ q[Len(q)].ch = " "
      THEN QueryTrimEnd(SubSeq(q, 1, Len(q) - 1))
      ELSE q

\* query.trim()
QueryTrim(q) == QueryTrimEnd(QueryTrimStart(q))

\* .replace(/[<>]/g, "")
StripAngles(q) ==
    LET Keep(r) == r.ch \notin {"<", ">"}
    IN  SelectSeq(q, Keep)

\* const sanitizedQuery = search.trim().replace(/[<>]/g, "")
SanitizeQuery(q) == StripAngles(QueryTrim(q))

MinQueryLength == 2
MaxQueryLength == 100

\* the two length checks; the error thrown, or NoError
QueryLengthError(q) ==
    IF QueryLength(q) < MinQueryLength
      THEN ValidationError("Search query must be at least 2 characters long")
      ELSE IF QueryLength(q) > MaxQueryLength
             THEN ValidationError("Search query is too long (max 100 characters)")
             ELSE NoError

\* searchParams.get(...): absent, or present with a text
Absent == [present |-> FALSE, text |-> <<>>]
Present(q) == [present |-> TRUE, text |-> q]

Run(c, k) == [ch |-> c, n |-> k]

QueryParams ==
    {Absent, Present(<<>>), Present(<<Run("a", 1)>>), Present(<<Run("a", 2)>>),
     Present(<<Run(" ", 2)>>), Present(<<Run("<", 1), Run(">", 1)>>),
     Present(<<Run(" ", 1), Run("a", 1)>>),
     Present(<<Run("a", 100)>>), Present(<<Run("a", 101)>>)}

\* Numbers are kept in halves, so that 1.5 is a value: Num(1) is the number 1.
Num(n) == 2 * n

PageParams == {"absent", "abc", "0", "1", "2", "-1", "1.5"}

\* Number(searchParams.get("page")) || 1
ParsePage(param) ==
    CASE param = "absent" -> Num(1)
      [] param = "abc" -> Num(1)
      [] param = "0" -> Num(1)
      [] param = "1" -> Num(1)
      [] param = "2" -> Num(2)
      [] param = "-1" -> Num(-1)
      [] param = "1.5" -> 3

\* The requests: the page parameter varies where the handler uses it, in
\* the latest mode of /api/movies.
Requests ==
    {r \in [route : {"movies", "search"}, search : QueryParams, page : PageParams,
            details : BOOLEAN] :
        r.page = "absent" \/ (r.route = "movies" /\ r.search.text = <<>>)}

(* ---- the upstream sites ---- *)
\* How a site answers the successive requests of one operation.
Behaviours == {"up", "failTwice", "down", "missing"}

\* the outcome of the k-th HTTP request of an operation (client.get / client(...))
HttpRequest(behaviour, k) ==
    CASE behaviour = "up" -> Return("html")
      [] behaviour = "failTwice" ->
            IF k <= 2 THEN Throw(ClientError("server503")) ELSE Return("html")
      [] behaviour = "down" -> Throw(ClientError("server500"))
      [] behaviour = "missing" -> Throw(ClientError("notfound"))

\* withRetry(operation) as a function: the operation is one HTTP request
\* (depth 1) or, for the 9xMoviie adapter, itself a withRetry around one HTTP
\* request (depth 2).  k is the number of the next request, att the attempt.
\* The result is what withRetry returns or throws and the requests it issued.
RECURSIVE RetryLoop(_, _, _, _)
RetryLoop(depth, behaviour, k, att) ==
    LET r == IF depth = 1
               THEN [out |-> HttpRequest(behaviour, k), used |-> 1]
               ELSE RetryLoop(depth - 1, behaviour, k, 0)
    IN  IF r.out.kind = "return"
          THEN r
          ELSE CASE RetryDecision(r.out.error, att) = "rethrow" -> r
                 [] RetryDecision(r.out.error, att) = "exhausted" ->
                      [out |-> Throw(ExhaustedError(ToError(r.out.error))),
                       used |-> r.used]
                 [] RetryDecision(r.out.error, att) = "backoff" ->
                      LET rest == RetryLoop(depth, behaviour, k + r.used, att + 1)
                      IN  [out |-> rest.out, used |-> r.used + rest.used]

\* an operation that throws before it issues any request, inside withRetry
RECURSIVE RetryThrowing(_, _)
RetryThrowing(error, att) ==
    CASE RetryDecision(error, att) = "rethrow" -> Throw(error)
      [] RetryDecision(error, att) = "exhausted" -> Throw(ExhaustedError(ToError(error)))
      [] RetryDecision(error, att) = "backoff" -> RetryThrowing(error, att + 1)

(* ---- movies and listings ---- *)
NoLinks == <<>>

Movie(title, link, quality) ==
    [title |-> title, link |-> link, quality |-> quality, size |-> Undefined,
     downloadLinks |-> NoLinks]

\* the fallback of getskyBapUrl, and a URL the badge of skybap.com advertises
DefaultSkyBapUrl == <<"https://", "skymovieshd.dance">>
AdvertisedSkyBapUrl == <<"https://", "skybap.zip">>
BaseUrls == {DefaultSkyBapUrl, AdvertisedSkyBapUrl}
NineXBaseUrl == <<"https://", "9xmoviie.me">>
SearchBaseUrl == <<"https://", "skymovieshd.blue">>

\* the operations a request fans out to
Ops == {"search9x", "searchSkyBap", "popularSkyBap", "latestSkyBap", "latest9x",
        "searchMovies"}

IsNineX(op) == op \in {"search9x", "latest9x"}

OpBaseUrl(op, skyBapUrl) ==
    IF IsNineX(op) THEN NineXBaseUrl
    ELSE IF op = "searchMovies" THEN SearchBaseUrl ELSE skyBapUrl

Digits == <<"1", "2", "3", "4", "5", "6", "7", "8", "9", "10", "11", "12", "13",
            "14", "15", "16", "17", "18", "19", "20">>

\* the quality a listing parser attaches: 9xMoviie listings carry none
ListedQuality(op, q) == IF IsNineX(op) THEN Undefined ELSE q

\* The listings an operation's page parses to.  "few": a movie, an adult
\* title, a variant of the first movie under an absolute link to another
\* host, a second movie, and a third whose detail page carries an adult
\* title; "nineteen", "twenty": n distinct movies.
Listing(op, template, skyBapUrl) ==
    LET base == OpBaseUrl(op, skyBapUrl)
        Link(id) == base \o <<"/", op, id>>
    IN  CASE template = "none" -> <<>>
          [] template = "few" ->
               <<Movie(<<"M", "1">>, Link("1"), ListedQuality(op, "720P")),
                 Movie(<<"M", " ", "Unrated">>, Link("2"), Undefined),
                 Movie(<<"m", "1", " ", "(", "b", ")">>,
                       <<"https://", "other.site", "/", op, "3">>,
                       ListedQuality(op, "1080P")),
                 Movie(<<"B", "2">>, Link("4"), Undefined),
                 Movie(<<"C", "3">>, Link("6"), Undefined)>>
          [] template = "nineteen" ->
               [i \in 1..19 |-> Movie(<<"F", Digits[i]>>, Link(Digits[i]), Undefined)]
          [] template = "twenty" ->
               [i \in 1..20 |-> Movie(<<"F", Digits[i]>>, Link(Digits[i]), Undefined)]

\* the pages a site serves: the 9xMoviie listing has 20 rows on a full page
Templates(op) ==
    IF IsNineX(op) THEN {"none", "few", "nineteen", "twenty"} ELSE {"none", "few"}

\* the operation a link was listed by
OpOfLink(link) == link[Len(link) - 1]

(* ---- detail pages and enrichment ---- *)
\* The detail page behind a link, by the last segment of the link: how the
\* site answers, and what the detail parser extracts (title <<>>, quality
\* and size Undefined: absent).
DetailWorld(link) ==
    LET id == link[Len(link)]
        Page(t, q, sz, n) ==
            [title |-> t, quality |-> q, size |-> sz,
             downloadLinks |->
                 [k \in 1..n |-> [label |-> <<"Link">>, url |-> <<"https://", "dl", id>>]]]
    IN  CASE id = "1" -> [behaviour |-> "up", section |-> TRUE,
                          page |-> Page(<<"M", "1", " ", "HD">>, "480P", "1GB", 1)]
          [] id = "3" -> [behaviour |-> "failTwice", section |-> TRUE,
                          page |-> Page(<<"M", "1", " ", "XXX">>, Undefined, Undefined, 0)]
          [] id = "4" -> [behaviour |-> "down", section |-> TRUE,
                          page |-> Page(<<>>, Undefined, Undefined, 0)]
          [] id = "5" -> [behaviour |-> "up", section |-> FALSE,
                          page |-> Page(<<>>, Undefined, Undefined, 0)]
          [] id = "6" -> [behaviour |-> "up", section |-> TRUE,
                          page |-> Page(<<"C", "3", " ", "XXX">>, Undefined, Undefined, 1)]
          [] OTHER -> [behaviour |-> "up", section |-> TRUE,
                       page |-> Page(<<>>, "", Undefined, 1)]

Falsy(q) == q = Undefined \/ q = ""

\* the object the SkyBap-style processors return on success
MergeSkyBap(movie, details) ==
    [movie EXCEPT
       !.downloadLinks = <<details.downloadLinks>>,
       !.title = IF details.title # <<>> /\ details.title # movie.title
                   THEN details.title ELSE @,
       !.size = IF ~Falsy(details.size) THEN details.size ELSE @,
       !.quality = IF ~Falsy(details.quality) /\ Falsy(movie.quality)
                     THEN details.quality ELSE @]

\* what get9xMovieDetails returns for a page with a Movie Information section
NineXDetails(link, page) ==
    [title |-> IF page.title # <<>> THEN page.title ELSE <<"Unknown Title">>,
     link |-> link, quality |-> page.quality, size |-> page.size,
     downloadLinks |-> page.downloadLinks]

\* { ...movie, ...details }: every property details has overrides
Merge9x(movie, details) ==
    [movie EXCEPT
       !.title = details.title,
       !.link = details.link,
       !.quality = IF details.quality # Undefined THEN details.quality ELSE @,
       !.size = IF details.size # Undefined THEN details.size ELSE @,
       !.downloadLinks = <<details.downloadLinks>>]

\* the processor of fetchSkyBapDetailsWithConcurrency (and of /api/search's
\* fetchMovieDetailsWithConcurrency): the movie it resolves to and the
\* requests it issued
EnrichSkyBap(movie) ==
    LET w == DetailWorld(movie.link)
        r == RetryLoop(1, w.behaviour, 1, 0)
    IN  [movie |-> IF r.out.kind = "return" THEN MergeSkyBap(movie, w.page) ELSE movie,
         used |-> r.used]

\* the processor of fetch9xMovieDetailsWithConcurrency
Enrich9x(movie) ==
    LET w == DetailWorld(movie.link)
        r == RetryLoop(2, w.behaviour, 1, 0)
    IN  [movie |-> IF r.out.kind = "return" /\ w.section
                     THEN Merge9x(movie, NineXDetails(movie.link, w.page))
                     ELSE movie,
         used |-> r.used]

\* processMoviesWithConcurrency over promises that are already known: the
\* fulfilled values of the successive batches
RECURSIVE CollectBatches(_, _, _)
CollectBatches(promises, i, limit) ==
    IF i >= Len(promises)
      THEN <<>>
      ELSE FulfilledValues(Slice(promises, i, i + limit))
               \o CollectBatches(promises, i + limit, limit)

\* the processor of the detail fetcher of a source ("9x" or "skybap")
Enrich(source, movie) ==
    IF source = "9x" THEN Enrich9x(movie) ELSE EnrichSkyBap(movie)

\* fetch...DetailsWithConcurrency(group); the processors never reject
EnrichGroup(group, source) ==
    CollectBatches([k \in 1..Len(group) |->
                       [state |-> "fulfilled", value |-> Enrich(source, group[k]).movie]],
                   0, Min(SCRAPER_CONFIG.maxConcurrent, Len(group)))

RECURSIVE Sum(_)
Sum(ns) == IF ns = <<>> THEN 0 ELSE Head(ns) + Sum(Tail(ns))

\* the requests the detail fetches of a group issue
SumUsed(group, source) == Sum([k \in 1..Len(group) |-> Enrich(source, group[k]).used])

\* link.includes(needle) for a needle that is part of a host name
HostIncludes(link, needle) ==
    \E i \in 1..Len(link) :
        \/ link[i] = needle
        \/ needle = "skybap" /\ link[i] \in {"skybap.com", "skybap.zip"}

\* link.includes(url) for a base URL
RECURSIVE IncludesSeq(_, _)
IncludesSeq(t, needle) ==
    IF Len(t) < Len(needle)
      THEN FALSE
      ELSE SubSeq(t, 1, Len(needle)) = needle \/ IncludesSeq(Tail(t), needle)

IsSkyBapLink(movie, skyBapUrl) ==
    HostIncludes(movie.link, "skybap") \/ IncludesSeq(movie.link, skyBapUrl)

Is9xLink(movie) == HostIncludes(movie.link, "9xmoviie.me")

\* the adult-content filter
DisallowedTokens == {"unrated", "18+", "xxx", "adult"}

IsAllowedTitle(movie) ==
    \A tok \in DisallowedTokens : ~Includes(ToLowerCase(movie.title), tok)

FilterAdult(ms) == SelectSeq(ms, IsAllowedTitle)

\* the detail stage of /api/movies: partition by source, enrich, concatenate
DetailStage(ms, skyBapUrl) ==
    LET IsSky(m) == IsSkyBapLink(m, skyBapUrl)
        skyBapMovies == SelectSeq(ms, IsSky)
        nineXMovies == SelectSeq(ms, Is9xLink)
    IN  [movies |-> EnrichGroup(nineXMovies, "9x") \o EnrichGroup(skyBapMovies, "skybap"),
         used |-> SumUsed(nineXMovies, "9x") + SumUsed(skyBapMovies, "skybap")]

(* ---- responses ---- *)
\* if (search) / if (!query): the parameter is there and not empty
HasSearch == request.search.present /\ request.search.text # <<>>

\* search.trim().replace(/[<>]/g, "")
sanitizedQuery == SanitizeQuery(request.search.text)

\* Number(searchParams.get("page")) || 1
page == ParsePage(request.page)

NoPage == [present |-> FALSE, value |-> 0]

ErrorEnvelope(code, status, message) ==
    [kind |-> "error", code |-> code, status |-> status, message |-> message]

\* createErrorResponse
createErrorResponse(error) ==
    IF error.cls = "ValidationError"
      THEN ErrorEnvelope("VALIDATION_ERROR", 400, error.message)
      ELSE IF error.cls = "ScrapingError"
             THEN ErrorEnvelope("SCRAPING_ERROR", error.statusCode, error.message)
             ELSE ErrorEnvelope("INTERNAL_ERROR", 500, "An unexpected error occurred")

MoviesEnvelope_NextPageAlways(ms, more, pageNumber) ==
    [kind |-> "success", status |-> 200, movies |-> ms, total |-> Len(ms),
     hasMore |-> more,
     nextPage |-> [present |-> TRUE, value |-> pageNumber + Num(1)],
     xMoviesFound |-> Len(ms), xHasMore |-> more]

\* the result object and headers of /api/movies
MoviesEnvelope(ms, more, pageNumber) ==
    [kind |-> "success", status |-> 200, movies |-> ms, total |-> Len(ms),
     hasMore |-> more,
     nextPage |-> IF more THEN [present |-> TRUE, value |-> pageNumber + Num(1)]
                          ELSE NoPage,
     xMoviesFound |-> Len(ms), xHasMore |-> more]

\* the result object and headers of /api/search
SearchEnvelope(ms) ==
    [kind |-> "success", status |-> 200, movies |-> ms, query |-> sanitizedQuery,
     total |-> Len(ms), hasMore |-> FALSE, xMoviesFound |-> Len(ms)]

\* an exception that leaves GET: the handler produced no envelope
Escaped(error) == [kind |-> "escaped", error |-> error]

(* ---- the handler ---- *)
Targets == Ops \cup {"base", "detail"}

NoFetches == [t \in Targets |-> 0]

CountFetch(f, target, n) == [f EXCEPT ![target] = @ + n]

Pending(op) ==
    [op |-> op, state |-> "pending", value |-> <<>>, hasMore |-> FALSE,
     error |-> NoError, behaviour |-> "", template |-> ""]

hasMoreInitial_True == TRUE

\* let hasMore = false
hasMoreInitial == FALSE

HandlerInit ==
    /\ request \in Requests
    /\ handlerPc = IF request.route = "movies" THEN "start" ELSE "validate"
    /\ SKYBAP_URL = <<>>
    /\ sources = <<>>
    /\ movies = <<>>
    /\ hasMore = hasMoreInitial
    /\ joined = <<>>
    /\ detailedMovies = <<>>
    /\ fetches = NoFetches
    /\ response = [kind |-> "none"]
    /\ RetryIdle
    /\ DedupeIdle
    /\ LinksIdle
    /\ BatchIdle
    /\ QualityIdle
    /\ LimiterIdle
    /\ HomeIdle
    /\ ParserIdle
    /\ MergeIdle

\* const SKYBAP_URL = await getskyBapUrl(), in front of the try block: one
\* fetch of https://skybap.com; a rejected fetch leaves GET as an exception
ResolveBaseUrl ==
    /\ handlerPc = "start"
    /\ fetches' = CountFetch(fetches, "base", 1)
    /\ \/ \E baseUrl \in BaseUrls :
               /\ SKYBAP_URL' = baseUrl
               /\ handlerPc' = "validate"
               /\ UNCHANGED response
       \/ /\ response' = Escaped(GenericError("fetch failed"))
          /\ handlerPc' = "done"
          /\ UNCHANGED SKYBAP_URL
    /\ UNCHANGED <<request, sources, movies, hasMore, joined, detailedMovies>>
    /\ UNCHANGED notHandlerVars

\* the source calls a request fans out to, in the order they are pushed
SourceCalls ==
    IF request.route = "search"
      THEN <<"searchMovies">>
      ELSE IF HasSearch
             THEN <<"search9x", "searchSkyBap">>
             ELSE IF page = Num(1)
                    THEN <<"popularSkyBap", "latestSkyBap", "latest9x">>
                    ELSE <<"latest9x">>

\* the answer the handler gives without calling any source, if any:
\* /api/search answers MISSING_QUERY itself, the length checks throw
EarlyAnswer ==
    IF request.route = "search" /\ ~HasSearch
      THEN <<ErrorEnvelope("MISSING_QUERY", 400, "Search query is required")>>
      ELSE IF HasSearch /\ QueryLengthError(request.search.text) # NoError
             THEN <<createErrorResponse(QueryLengthError(request.search.text))>>
             ELSE <<>>

\* from the start of the try block to the first await on the source calls
Validate ==
    /\ handlerPc = "validate"
    /\ IF EarlyAnswer # <<>>
         THEN /\ response' = EarlyAnswer[1]
              /\ handlerPc' = "done"
              /\ UNCHANGED sources
         ELSE /\ sources' = [k \in 1..Len(SourceCalls) |-> Pending(SourceCalls[k])]
              /\ handlerPc' = "fanout"
              /\ UNCHANGED response
    /\ UNCHANGED <<request, SKYBAP_URL, movies, hasMore, joined, detailedMovies, fetches>>
    /\ UNCHANGED notHandlerVars

\* what withRetry(() => op) settles to against a site with this behaviour
SourceOutcome(op, behaviour) ==
    IF op = "search9x" /\ QueryTrim(sanitizedQuery) = <<>>
      THEN [out |-> RetryThrowing(
                      ScrapingError("Search query cannot be empty", 500, NoError), 0),
            used |-> 0]
      ELSE RetryLoop(IF IsNineX(op) THEN 2 ELSE 1, behaviour, 1, 0)

\* const hasMore = movies.length >= 20 && !searchQuery
NineXHasMore(ms, isSearch) == Len(ms) >= 20 /\ ~isSearch

\* one source call settles; the 9xMoviie latest call assigns hasMore when
\* it succeeds
SourceSettle(k) ==
    /\ handlerPc = "fanout"
    /\ k \in 1..Len(sources)
    /\ sources[k].state = "pending"
    /\ \E behaviour \in Behaviours, template \in Templates(sources[k].op) :
          LET op == sources[k].op
              r == SourceOutcome(op, behaviour)
              listing == Listing(op, template, SKYBAP_URL)
          IN  /\ fetches' = CountFetch(fetches, op, r.used)
              /\ IF r.out.kind = "return"
                   THEN /\ sources' =
                             [sources EXCEPT
                                ![k] = [op |-> op, state |-> "fulfilled",
                                        value |-> listing,
                                        hasMore |-> NineXHasMore(listing, op = "search9x"),
                                        error |-> NoError, behaviour |-> behaviour,
                                        template |-> template]]
                        /\ hasMore' = IF op = "latest9x"
                                        THEN NineXHasMore(listing, FALSE)
                                        ELSE hasMore
                   ELSE /\ template = "none"
                        /\ sources' =
                             [sources EXCEPT
                                ![k] = [op |-> op, state |-> "rejected",
                                        value |-> <<>>, hasMore |-> FALSE,
                                        error |-> r.out.error, behaviour |-> behaviour,
                                        template |-> template]]
                        /\ UNCHANGED hasMore
    /\ UNCHANGED <<request, handlerPc, SKYBAP_URL, movies, joined, detailedMovies,
                 response>>
    /\ UNCHANGED notHandlerVars

AllSettled == \A k \in 1..Len(sources) : sources[k].state # "pending"

RECURSIVE ConcatFulfilled(_)
ConcatFulfilled(ss) ==
    IF ss = <<>>
      THEN <<>>
      ELSE (IF Head(ss).state = "fulfilled" THEN Head(ss).value ELSE <<>>)
               \o ConcatFulfilled(Tail(ss))

Rejections(ss) == LET IsRejected(x) == x.state = "rejected" IN SelectSeq(ss, IsRejected)

JoinError_PromiseAll(ss) ==
    IF Rejections(ss) # <<>> THEN Rejections(ss)[1].error ELSE NoError

JoinError_AllFailed(ss) ==
    IF Len(Rejections(ss)) = Len(ss) THEN Rejections(ss)[1].error ELSE NoError

\* the error the join of the source calls throws, or NoError: /api/movies
\* joins with Promise.allSettled, /api/search awaits its one call
JoinError(ss) ==
    IF request.route = "search" /\ Rejections(ss) # <<>>
      THEN Rejections(ss)[1].error
      ELSE NoError

SearchLimit == 20

\* movies after the join: the fulfilled listings, a search cut to 20
Joined(ss) ==
    IF request.route = "movies" /\ HasSearch
      THEN Slice(ConcatFulfilled(ss), 0, SearchLimit)
      ELSE ConcatFulfilled(ss)

\* the envelope of a finished request
Envelope(ms) ==
    IF request.route = "search"
      THEN SearchEnvelope(ms)
      ELSE MoviesEnvelope(ms, hasMore /\ ~HasSearch, page)

\* the source calls have settled: collect, filter, and either start the
\* detail fetches or dedupe and answer
Join ==
    /\ handlerPc = "fanout"
    /\ AllSettled
    /\ IF JoinError(sources) # NoError
         THEN /\ response' = createErrorResponse(JoinError(sources))
              /\ handlerPc' = "done"
              /\ UNCHANGED <<movies, hasMore, joined>>
         ELSE LET collected == Joined(sources)
                  filtered == IF request.route = "movies"
                                THEN FilterAdult(collected) ELSE collected
              IN  /\ joined' = collected
                  /\ hasMore' = (hasMore /\ ~HasSearch)
                  /\ IF request.details /\ Len(filtered) > 0
                       THEN /\ movies' = filtered
                            /\ handlerPc' = "details"
                            /\ UNCHANGED response
                       ELSE /\ movies' = dedupeMoviesByTitleHighestQuality(filtered)
                            /\ response' = Envelope(movies')
                            /\ handlerPc' = "done"
    /\ UNCHANGED <<request, SKYBAP_URL, sources, detailedMovies, fetches>>
    /\ UNCHANGED notHandlerVars

\* the detail fetches have settled: dedupe and answer
Details ==
    /\ handlerPc = "details"
    /\ LET detailed == IF request.route = "search"
                          THEN [movies |-> EnrichGroup(movies, "skybap"),
                                used |-> SumUsed(movies, "skybap")]
                          ELSE DetailStage(movies, SKYBAP_URL)
       IN  /\ detailedMovies' = detailed.movies
           /\ movies' = dedupeMoviesByTitleHighestQuality(detailed.movies)
           /\ fetches' = CountFetch(fetches, "detail", detailed.used)
    /\ response' = Envelope(movies')
    /\ handlerPc' = "done"
    /\ UNCHANGED <<request, SKYBAP_URL, sources, hasMore, joined>>
    /\ UNCHANGED notHandlerVars

HandlerNext ==
    \/ ResolveBaseUrl
    \/ Validate
    \/ \E k \in 1..3 : SourceSettle(k)
    \/ Join
    \/ Details

SpecHandler == HandlerInit /\ [][HandlerNext]_vars

(* ---- claims about the handlers ---- *)
Answered == handlerPc = "done"

OneCharQuery == request.search.present /\ QueryLength(request.search.text) = 1

NoFetchIssued == \A t \in Targets : fetches[t] = 0

IsValidationError400 ==
    /\ response.kind = "error"
    /\ response.code = "VALIDATION_ERROR"
    /\ response.status = 400

\* C7: a search request with a query of length 1 (either route) is answered
\* with VALIDATION_ERROR, status 400, and no network fetch of any kind, the
\* SkyBap base URL lookup included, has been issued by then.
C7_OneCharQueryRejectedBeforeAnyFetch ==
    (Answered /\ OneCharQuery) => (IsValidationError400 /\ NoFetchIssued)

\* C7, the part that holds: GET /api/search rejects a 1-character query
\* with VALIDATION_ERROR before any fetch.
C7_SearchRouteRejectsBeforeAnyFetch ==
    (Answered /\ OneCharQuery /\ request.route = "search")
        => (IsValidationError400 /\ NoFetchIssued)

\* C7, what GET /api/movies does instead: whenever it answers a 1-character
\* query, the base URL lookup has been fetched, and the answer is either the
\* VALIDATION_ERROR or the lookup's exception.
C7_MoviesRouteLooksUpBaseUrlFirst ==
    (Answered /\ OneCharQuery /\ request.route = "movies")
        => /\ fetches["base"] = 1
           /\ IsValidationError400 \/ response.kind = "escaped"

C7_Witness_MoviesRouteFetchedBeforeRejecting ==
    /\ Answered /\ OneCharQuery /\ request.route = "movies"
    /\ IsValidationError400
    /\ fetches["base"] = 1

SomeFulfilled == \E k \in 1..Len(sources) : sources[k].state = "fulfilled"
SomeRejected == \E k \in 1..Len(sources) : sources[k].state = "rejected"
AllRejected ==
    /\ sources # <<>>
    /\ \A k \in 1..Len(sources) : sources[k].state = "rejected"

FulfilledOps == {sources[k].op : k \in {j \in 1..Len(sources) : sources[j].state = "fulfilled"}}

\* the listings the sites served to the calls that succeeded, in call order
RECURSIVE ServedFrom(_)
ServedFrom(k) ==
    IF k > Len(sources)
      THEN <<>>
      ELSE (IF sources[k].state = "fulfilled"
              THEN Listing(sources[k].op, sources[k].template, SKYBAP_URL)
              ELSE <<>>) \o ServedFrom(k + 1)

ServedCut ==
    IF HasSearch THEN SubSeq(ServedFrom(1), 1, Min(SearchLimit, Len(ServedFrom(1))))
    ELSE ServedFrom(1)

\* C8: in GET /api/movies, when at least one source call succeeded and at
\* least one failed terminally, the answer is a success envelope built from
\* the listings of the successful sources (all of them, a search cut to 20,
\* before the filter, detail and dedupe stages); no movie of the answer
\* comes from a failed source and no error is surfaced.
C8_PartialSuccess ==
    (Answered /\ request.route = "movies" /\ SomeFulfilled /\ SomeRejected)
        => /\ response.kind = "success"
           /\ response.status = 200
           /\ joined = ServedCut
           /\ \A i \in 1..Len(response.movies) :
                  OpOfLink(response.movies[i].link) \in FulfilledOps
           /\ ~request.details =>
                  response.movies = dedupeMoviesByTitleHighestQuality(FilterAdult(ServedCut))

C8_Witness ==
    /\ Answered /\ request.route = "movies" /\ SomeFulfilled /\ SomeRejected
    /\ \E k \in 1..Len(sources) : sources[k].error.cls = "ScrapingError"
                                      /\ sources[k].error.statusCode = 500
                                      /\ fetches[sources[k].op] > 1
    /\ response.kind = "success"
    /\ response.movies # <<>>

\* C9: in GET /api/movies, when every source call failed terminally, the
\* answer is a success envelope with no movies, total 0 and hasMore false.
C9_AllSourcesFail ==
    (Answered /\ request.route = "movies" /\ AllRejected)
        => /\ response.kind = "success"
           /\ response.status = 200
           /\ response.movies = <<>>
           /\ response.total = 0
           /\ response.hasMore = FALSE
           /\ response.nextPage = NoPage

C9_Witness ==
    /\ Answered /\ request.route = "movies" /\ AllRejected
    /\ Len(sources) = 3
    /\ response.kind = "success"
    /\ response.total = 0

SuccessOfMovies ==
    Answered /\ request.route = "movies" /\ response.kind = "success"

\* the 9xMoviie latest listing call succeeded and reported more pages
NineXReportedMore ==
    \E k \in 1..Len(sources) :
        /\ sources[k].op = "latest9x"
        /\ sources[k].state = "fulfilled"
        /\ sources[k].hasMore

\* C10: in every success envelope of GET /api/movies, hasMore is true only
\* if the 9xMoviie latest listing call of this request succeeded and
\* reported more pages; it is false for a search and when that call failed.
C10_HasMoreOnlyFromPaginatingSource ==
    SuccessOfMovies =>
        /\ response.hasMore => (~HasSearch /\ NineXReportedMore)
        /\ HasSearch => ~response.hasMore
        /\ (\E k \in 1..Len(sources) :
               sources[k].op = "latest9x" /\ sources[k].state = "rejected")
              => ~response.hasMore
        /\ response.xHasMore = response.hasMore
        /\ response.nextPage.present = response.hasMore

C10_Witness ==
    /\ SuccessOfMovies
    /\ response.hasMore
    /\ Len(sources) = 3
    /\ \A k \in 1..3 : sources[k].state = "fulfilled" /\ sources[k].value # <<>>

(* ---- the detail stage ---- *)
\* the listings that passed the content filter
Filtered == FilterAdult(joined)

DetailStageRan ==
    /\ Answered /\ request.route = "movies" /\ response.kind = "success"
    /\ request.details
    /\ Filtered # <<>>

\* the positions of detailedMovies that hold the listing with this link
PositionsOf(link) ==
    {j \in 1..Len(detailedMovies) : detailedMovies[j].link = link}

\* the entry is the listing itself or the listing enriched by its source
OriginalOrEnriched(entry, listing) ==
    \/ entry = listing
    \/ entry = Enrich9x(listing).movie
    \/ entry = EnrichSkyBap(listing).movie

KeptOnce(listing) ==
    /\ Cardinality(PositionsOf(listing.link)) = 1
    /\ \A j \in PositionsOf(listing.link) :
          OriginalOrEnriched(detailedMovies[j], listing)

\* C11: with details requested, every listing that passed the content
\* filter appears exactly once in the list handed to dedupe, enriched or
\* unchanged; neither a detail failure nor the partition by source drops or
\* duplicates a listing.
C11_EveryFilteredListingKeptOnce ==
    DetailStageRan =>
        /\ Len(detailedMovies) = Len(Filtered)
        /\ \A i \in 1..Len(Filtered) : KeptOnce(Filtered[i])

\* C11, the part that holds: a listing whose link one of the two partition
\* filters recognises appears exactly once, enriched or unchanged, whether
\* or not its detail fetch succeeded.
C11_RecognisedListingKeptOnce ==
    DetailStageRan =>
        \A i \in 1..Len(Filtered) :
            (IsSkyBapLink(Filtered[i], SKYBAP_URL) \/ Is9xLink(Filtered[i]))
                => KeptOnce(Filtered[i])

\* a listing under a link of another host is in neither partition
C11_Witness_ForeignHostListingDropped ==
    /\ DetailStageRan
    /\ \E i \in 1..Len(Filtered) :
          /\ ~IsSkyBapLink(Filtered[i], SKYBAP_URL)
          /\ ~Is9xLink(Filtered[i])
          /\ PositionsOf(Filtered[i].link) = {}

\* a listing whose detail fetch failed after its retries is kept unchanged
C11_Witness_FailedDetailKeepsListing ==
    /\ DetailStageRan
    /\ \E i \in 1..Len(Filtered) :
          /\ DetailWorld(Filtered[i].link).behaviour = "down"
          /\ \E j \in PositionsOf(Filtered[i].link) : detailedMovies[j] = Filtered[i]

(* ---- how a request ends ---- *)
StableCodes == {"VALIDATION_ERROR", "SCRAPING_ERROR", "INTERNAL_ERROR"}

\* C12: every request to either handler ends in a success envelope or in an
\* error envelope whose code is VALIDATION_ERROR, SCRAPING_ERROR or
\* INTERNAL_ERROR; no exception of any step, the base URL lookup included,
\* leaves the handler.
C12_EndsInEnvelopeWithStableCode ==
    Answered =>
        \/ response.kind = "success"
        \/ response.kind = "error" /\ response.code \in StableCodes

\* C12, what holds instead: a request ends in a success envelope, in an
\* error envelope with one of the three codes or with MISSING_QUERY
\* (/api/search only), or in the exception of the base URL lookup
\* (/api/movies only, before any source call).
C12_EndsInEnvelopeOrLookupException ==
    Answered =>
        \/ response.kind = "success"
        \/ response.kind = "error" /\ response.code \in StableCodes
        \/ /\ response.kind = "error" /\ response.code = "MISSING_QUERY"
           /\ request.route = "search"
        \/ /\ response.kind = "escaped"
           /\ request.route = "movies" /\ sources = <<>> /\ fetches["base"] = 1

C12_Witness_LookupExceptionEscapes ==
    Answered /\ response.kind = "escaped"

C12_Witness_MissingQueryCode ==
    Answered /\ response.kind = "error" /\ response.code = "MISSING_QUERY"

(***************************************************************************)
(* extractQualityFromText.  A text is a sequence of tokens; a pattern is   *)
(* the sequence of its alternatives, "" being the empty alternative.       *)
(***************************************************************************)
\* /(4K|2160p|1440p|1080p|720p|480p|360p)/i
resolutionPattern == <<"4K", "2160p", "1440p", "1080p", "720p", "480p", "360p">>

\* the format pattern: src/utils/scraper.ts ends it with "Low Quality" and
\* an empty alternative, the older definition (part_006) does not
formatPattern(version) ==
    IF version = "scraper.ts"
      THEN <<"BluRay", "WEBRip", "HDRip", "HDTV", "DVDRip", "HD", "SD", "Low Quality", "">>
      ELSE <<"BluRay", "WEBRip", "HDRip", "HDTV", "DVDRip", "HD", "SD">>

\* the alternative matches at this position (flag i: case-insensitive)
AltMatches(text, pos, alt) ==
    \/ alt = ""
    \/ pos <= Len(text) /\ ToUpperCase(text[pos]) = ToUpperCase(alt)

\* the alternatives are tried in order at a position; 0: none matches
FirstAltAt(text, pos, pattern) ==
    IF \E a \in 1..Len(pattern) : AltMatches(text, pos, pattern[a])
      THEN CHOOSE a \in 1..Len(pattern) :
               /\ AltMatches(text, pos, pattern[a])
               /\ \A b \in 1..(a - 1) : ~AltMatches(text, pos, pattern[b])
      ELSE 0

\* text.match(pattern): <<>> for null, else <<group 1>>, the text matched
\* at the leftmost position where an alternative matches
RECURSIVE MatchFrom(_, _, _)
MatchFrom(text, pos, pattern) ==
    IF pos > Len(text) + 1
      THEN <<>>
      ELSE IF FirstAltAt(text, pos, pattern) = 0
             THEN MatchFrom(text, pos + 1, pattern)
             ELSE IF pattern[FirstAltAt(text, pos, pattern)] = ""
                    THEN <<"">>
                    ELSE <<text[pos]>>

Match(text, pattern) == MatchFrom(text, 1, pattern)

extractQualityFromText(version, text) ==
    LET resolutionMatch == Match(text, resolutionPattern)
        formatMatch == Match(text, formatPattern(version))
    IN  IF resolutionMatch # <<>>
          THEN ToUpperCase(resolutionMatch[1])
          ELSE IF formatMatch # <<>>
                 THEN ToUpperCase(formatMatch[1])
                 ELSE Undefined

MaxTextLen == 3

TextTokens == {"Movie", ".", "1080p", "4k", "BluRay", "hdrip", "hd"}

Texts == UNION {[1..n -> TextTokens] : n \in 0..MaxTextLen}

QualityVersions == {"scraper.ts", "part_006"}

QualityInit ==
    /\ qualityVersion \in QualityVersions
    /\ qualityText \in Texts
    /\ qualityResult = <<>>
    /\ RetryIdle
    /\ DedupeIdle
    /\ LinksIdle
    /\ BatchIdle
    /\ HandlerIdle
    /\ LimiterIdle
    /\ HomeIdle
    /\ ParserIdle
    /\ MergeIdle

ExtractQuality ==
    /\ qualityResult = <<>>
    /\ qualityResult' = <<extractQualityFromText(qualityVersion, qualityText)>>
    /\ UNCHANGED <<qualityVersion, qualityText>>
    /\ UNCHANGED notQualityVars

QualityNext == ExtractQuality

SpecQuality == QualityInit /\ [][QualityNext]_vars

(* ---- claims about extractQualityFromText ---- *)
ResolutionTokens == {"4K", "2160P", "1440P", "1080P", "720P", "480P", "360P"}
FormatTokens == {"BLURAY", "WEBRIP", "HDRIP", "HDTV", "DVDRIP", "HD", "SD"}

TokenPositions(text, tokens) ==
    {i \in 1..Len(text) : ToUpperCase(text[i]) \in tokens}

FirstToken(text, tokens) ==
    ToUpperCase(text[CHOOSE i \in TokenPositions(text, tokens) :
                         \A j \in TokenPositions(text, tokens) : i <= j])

QualityExpected(text) ==
    IF TokenPositions(text, ResolutionTokens) # {}
      THEN FirstToken(text, ResolutionTokens)
      ELSE IF TokenPositions(text, FormatTokens) # {}
             THEN FirstToken(text, FormatTokens)
             ELSE Undefined

QualityReturned == qualityResult # <<>>

\* C13: extractQualityFromText returns the first resolution token
\* upper-cased if the text has one, else the first format token upper-cased
\* if it has one, else no value (undefined), never an empty string.
C13_QualityExtraction ==
    QualityReturned =>
        /\ qualityResult[1] = QualityExpected(qualityText)
        /\ qualityResult[1] # ""

\* C13, the parts that hold: the older definition behaves as stated, and
\* the definition of src/utils/scraper.ts does for a text with a resolution
\* token or one that begins with a format token.
C13_QualityExtraction_Holds ==
    (/\ QualityReturned
     /\ \/ qualityVersion = "part_006"
        \/ TokenPositions(qualityText, ResolutionTokens) # {}
        \/ 1 \in TokenPositions(qualityText, FormatTokens))
        => qualityResult[1] = QualityExpected(qualityText)

\* what src/utils/scraper.ts returns otherwise: the empty string
C13_EmptyStringWithoutLeadingToken ==
    (/\ QualityReturned
     /\ qualityVersion = "scraper.ts"
     /\ TokenPositions(qualityText, ResolutionTokens) = {}
     /\ 1 \notin TokenPositions(qualityText, FormatTokens))
        => qualityResult[1] = ""

C13_Witness_FormatTokenLost ==
    /\ QualityReturned
    /\ qualityVersion = "scraper.ts"
    /\ qualityText = <<"Movie", ".", "hdrip">>
    /\ qualityResult[1] = ""

(* ---- ties and last ranks in dedupe, checked under SpecDedupe ---- *)
\* the entries consumed so far that share the key of entry k (entry i has
\* link i)
SameKeyConsumed(k) ==
    {j \in 1..dedupePos :
        getBaseTitle(dedupeMovies[j].title) = getBaseTitle(dedupeMovies[k].title)}

Rank(j) == getQualityRank(dedupeMovies[j].quality)

\* entry k is the first of the entries of best rank among those of its key
FirstOfBestRank(k) ==
    \A j \in SameKeyConsumed(k) :
        /\ Rank(k) <= Rank(j)
        /\ Rank(j) = Rank(k) => k <= j

\* C14: among the entries of one base-title key, the entry kept is the
\* first of those with the best rank: after every iteration of the loop
\* (hence in the result) a later entry has replaced the kept one only if
\* its rank is strictly better.
C14_TiesKeepFirst ==
    \A i \in 1..Len(MapValues(dedupeMap)) :
        FirstOfBestRank(MapValues(dedupeMap)[i].link)

\* two entries of one key and equal rank, under different titles: the
\* first is returned
C14_Witness ==
    /\ DedupeReturned
    /\ Len(dedupeMovies) = 2
    /\ dedupeMovies[1].title # dedupeMovies[2].title
    /\ getBaseTitle(dedupeMovies[1].title) = getBaseTitle(dedupeMovies[2].title)
    /\ dedupeMovies[1].quality = "720p" /\ dedupeMovies[2].quality = "720p"
    /\ Kept = <<dedupeMovies[1]>>

RecognisedQualities == {q \in DedupeQualities : ToUpperCase(q) \in
                           {qualityOrder[i] : i \in 1..Len(qualityOrder)}}

UnrecognisedQualities == DedupeQualities \ (RecognisedQualities \cup {Undefined})

\* one entry without quality and one with an unrecognised quality token,
\* under the same key, and nothing else
AbsentAndUnrecognisedPair ==
    /\ Len(dedupeMovies) = 2
    /\ getBaseTitle(dedupeMovies[1].title) = getBaseTitle(dedupeMovies[2].title)
    /\ \E a, u \in 1..2 :
          /\ dedupeMovies[a].quality = Undefined
          /\ dedupeMovies[u].quality \in UnrecognisedQualities

\* C16: an absent quality and an unrecognised quality token rank equal and
\* worse than every token of the fixed order; so of two entries of one
\* key, one without quality and one with an unrecognised token, the first
\* is kept, whichever it is.
C16_AbsentAndUnrecognisedRankLast ==
    DedupeReturned =>
        /\ \A u \in UnrecognisedQualities :
              /\ getQualityRank(u) = getQualityRank(Undefined)
              /\ \A q \in RecognisedQualities : getQualityRank(q) < getQualityRank(u)
        /\ AbsentAndUnrecognisedPair => Kept = <<dedupeMovies[1]>>

\* C16, what holds instead: both rank worse than every token of the fixed
\* order, but an unrecognised token (99) ranks better than an absent
\* quality (100), so of such a pair the entry with the token is kept.
C16_UnrecognisedBeatsAbsent ==
    DedupeReturned =>
        /\ \A u \in UnrecognisedQualities :
              /\ getQualityRank(u) < getQualityRank(Undefined)
              /\ \A q \in RecognisedQualities : getQualityRank(q) < getQualityRank(u)
        /\ AbsentAndUnrecognisedPair =>
              /\ Len(Kept) = 1
              /\ Kept[1].quality \in UnrecognisedQualities

C16_Witness_LaterUnrecognisedReplacesAbsent ==
    /\ DedupeReturned /\ AbsentAndUnrecognisedPair
    /\ dedupeMovies[1].quality = Undefined
    /\ Kept = <<dedupeMovies[2]>>

(* ---- failure classes and retrying, checked under SpecRetry ---- *)
\* the failure classes by the kind of failure the HTTP client met
TimeoutErrors == {ClientError("timeout")}
ServerErrors == {ClientError("server500"), ClientError("server503")}
UnknownErrors == {ClientError("network")}
ForbiddenErrors == {ClientError("forbidden")}
NotFoundErrors == {ClientError("notfound")}
OtherClientStatusErrors == {ClientError("status429")}

JustFailed ==
    /\ retryPc \in {"thrown", "backoff"}
    /\ invocations # <<>>
    /\ invocations[Len(invocations)].kind = "throw"

LastThrown == invocations[Len(invocations)].error

\* withRetry gave up on the error just thrown, handing on that very error
GaveUpOnLast == retryPc = "thrown" /\ retryOut = Throw(LastThrown)

\* withRetry goes on to another invocation, or the cap is reached
RetriedOrCapped ==
    \/ retryPc = "backoff"
    \/ /\ retryPc = "thrown" /\ attempt = SCRAPER_CONFIG.maxRetries
       /\ retryOut = Throw(ExhaustedError(LastThrown))

\* C15: a failure classified Timeout, ServerError or Unknown is retried
\* until the cap; Forbidden, NotFound, other 4xx responses and validation
\* failures are terminal.
C15_TimeoutServerUnknownRetried ==
    JustFailed =>
        /\ LastThrown \in TimeoutErrors \cup ServerErrors \cup UnknownErrors
              => RetriedOrCapped
        /\ LastThrown \in ForbiddenErrors \cup NotFoundErrors
                             \cup OtherClientStatusErrors
                             \cup {ValidationError("invalid")}
              => GaveUpOnLast

\* C15, what withRetry does: ServerError and Unknown failures are retried,
\* and so is a 4xx response other than 403 and 404 (the client hands on the
\* AxiosError as it is); Timeout (a ScrapingError with status 408),
\* Forbidden, NotFound and validation failures are terminal.
C15_AsImplemented ==
    JustFailed =>
        /\ LastThrown \in ServerErrors \cup UnknownErrors \cup OtherClientStatusErrors
              => RetriedOrCapped
        /\ LastThrown \in TimeoutErrors \cup ForbiddenErrors \cup NotFoundErrors
                             \cup {ValidationError("invalid")}
              => GaveUpOnLast

C15_Witness_TimeoutNotRetried ==
    /\ JustFailed
    /\ Len(invocations) = 1
    /\ LastThrown \in TimeoutErrors
    /\ GaveUpOnLast

C15_Witness_Status429Retried ==
    /\ JustFailed
    /\ LastThrown \in OtherClientStatusErrors
    /\ retryPc = "backoff"

(* ---- upstream requests per operation, checked under SpecHandler ---- *)
RequestCap == SCRAPER_CONFIG.maxRetries + 1

\* the requests the detail fetch of one listing issued
DetailRequests(listing) ==
    IF request.route = "movies" /\ Is9xLink(listing)
      THEN Enrich9x(listing).used
      ELSE EnrichSkyBap(listing).used

\* the listings the detail stage fetched details for
DetailFetched ==
    IF request.route = "movies"
      THEN LET Recognised(m) == IsSkyBapLink(m, SKYBAP_URL) \/ Is9xLink(m)
           IN  SelectSeq(Filtered, Recognised)
      ELSE joined

DetailFetchesRan ==
    Answered /\ response.kind = "success" /\ request.details /\ detailedMovies # <<>>

\* C17: for one request every source operation (a listing, a search, one
\* item's detail fetch) issues at most maxRetries + 1 = 4 upstream
\* requests, the operations of the 9xMoviie adapter included.
C17_AtMostFourRequestsPerOperation ==
    /\ \A op \in Ops : fetches[op] <= RequestCap
    /\ DetailFetchesRan =>
          \A i \in 1..Len(DetailFetched) : DetailRequests(DetailFetched[i]) <= RequestCap

\* C17, what holds instead: the operations that are not 9xMoviie's stay
\* within 4 requests; a 9xMoviie operation, a withRetry inside a withRetry,
\* within 4 * 4 = 16.
C17_NestedRetriesMultiply ==
    /\ \A op \in Ops :
          fetches[op] <= IF IsNineX(op) THEN RequestCap * RequestCap ELSE RequestCap
    /\ DetailFetchesRan =>
          \A i \in 1..Len(DetailFetched) :
              DetailRequests(DetailFetched[i]) <=
                  IF request.route = "movies" /\ Is9xLink(DetailFetched[i])
                    THEN RequestCap * RequestCap ELSE RequestCap

C17_Witness_SixteenListingRequests ==
    fetches["latest9x"] = RequestCap * RequestCap

C17_Witness_SixteenDetailRequests ==
    /\ DetailFetchesRan
    /\ \E i \in 1..Len(DetailFetched) :
          DetailRequests(DetailFetched[i]) = RequestCap * RequestCap
    /\ fetches["detail"] >= RequestCap * RequestCap

(* ---- batches one after another, checked under SpecBatch ---- *)
BatchSize == IF concurrencyLimit < Len(items) THEN concurrencyLimit ELSE Len(items)

\* the processor calls that have started and not settled
InFlight == {k \in 1..Len(batchPromises) : batchPromises[k].state = "processing"}

\* the indexes of the processor calls that have settled
SettledIndexes == {completionOrder[n] : n \in 1..Len(completionOrder)}

\* the number of the batch an index belongs to
BatchOf(index) == IF BatchSize = 0 THEN 0 ELSE index \div BatchSize

\* C18: the batches are consecutive slices of size min(concurrencyLimit,
\* items.length); no processor call of a batch has started while a call of
\* an earlier batch has not settled; at no time are more than
\* min(concurrencyLimit, items.length) calls in flight.
C18_BatchesOneAfterAnother ==
    /\ Cardinality(InFlight) <= BatchSize
    /\ Len(batchPromises) <= BatchSize
    /\ \A k \in 1..Len(batchPromises) :
          /\ batchPromises[k].index = batchStart + (k - 1)
          /\ batchPromises[k].item = items[batchStart + k]
    /\ BatchSize > 0 => batchStart % BatchSize = 0
    /\ \A c \in 1..Len(processorCalls) :
          \A e \in 0..(Len(items) - 1) :
              BatchOf(e) < BatchOf(processorCalls[c].index) => e \in SettledIndexes

\* 5 items, limit 2: the second batch has both calls in flight at once
C18_Witness ==
    /\ Len(items) = 5 /\ concurrencyLimit = 2
    /\ batchStart = 2
    /\ Cardinality(InFlight) = 2
    /\ SettledIndexes = {0, 1}

\* the items whose processor call is not made to fail, in input order
SucceedingItems == LET Succeeds(x) == x \notin failingItems IN SelectSeq(items, Succeeds)

\* results is an initial part of the expected list
IsPrefix(a, b) == Len(a) <= Len(b) /\ a = SubSeq(b, 1, Len(a))

ExpectedResults ==
    [k \in 1..Len(SucceedingItems) |-> ProcessorResult(SucceedingItems[k])]

\* C19: the result list holds the results of the successfully processed
\* items in the order of the input list, whatever the order in which the
\* processor calls of a batch settled.
C19_ResultsInInputOrder ==
    /\ IsPrefix(results, ExpectedResults)
    /\ batchPc = "done" => results = ExpectedResults

\* the calls of one batch settled in an order that is not the input order
C19_Witness ==
    /\ batchPc = "done"
    /\ Len(items) = 3 /\ concurrencyLimit = 3
    /\ failingItems = {}
    /\ completionOrder = <<2, 0, 1>>
    /\ results = ExpectedResults

(***************************************************************************)
(* RateLimiter.waitIfNeeded.  Time is in ticks of the clock; a call is     *)
(* one run of waitIfNeeded, suspended at most once, at await sleep.        *)
(***************************************************************************)
MaxCalls == 3
MaxClock == 6

LimiterCapacities == {1, 2}
LimiterWindows == {3}

\* this.requests.filter((time) => now - time < this.windowMs)
FilterWindow(times, now) ==
    LET InWindow(time) == now - time < windowMs
    IN  SelectSeq(times, InWindow)

\* Math.min(...this.requests), for a list that is not empty
MinOf(times) ==
    CHOOSE x \in {times[i] : i \in 1..Len(times)} :
        \A i \in 1..Len(times) : x <= times[i]

\* this.windowMs - (now - oldestRequest)
WaitTime(times, now) == windowMs - (now - MinOf(times))

AtCapacity(times) == Len(times) >= maxRequests

LimiterInit ==
    /\ maxRequests \in LimiterCapacities
    /\ windowMs \in LimiterWindows
    /\ requests = <<>>
    /\ clock = 0
    /\ calls = <<>>
    /\ RetryIdle
    /\ DedupeIdle
    /\ LinksIdle
    /\ BatchIdle
    /\ HandlerIdle
    /\ QualityIdle
    /\ HomeIdle
    /\ ParserIdle
    /\ MergeIdle

\* a caller enters waitIfNeeded: it runs to the await, or to the end when it
\* need not wait
LimiterCall ==
    /\ Len(calls) < MaxCalls
    /\ LET now == clock
           kept == FilterWindow(requests, now)
       IN  IF AtCapacity(kept) /\ WaitTime(kept, now) > 0
             THEN /\ requests' = kept
                  /\ calls' = Append(calls,
                                     [now |-> now, state |-> "sleeping",
                                      atCapacity |-> TRUE, oldest |-> MinOf(kept),
                                      wakeAt |-> now + WaitTime(kept, now),
                                      admittedAt |-> -1])
             ELSE /\ requests' = Append(kept, now)
                  /\ calls' = Append(calls,
                                     [now |-> now, state |-> "admitted",
                                      atCapacity |-> AtCapacity(kept),
                                      oldest |-> -1, wakeAt |-> now,
                                      admittedAt |-> now])
    /\ UNCHANGED <<maxRequests, windowMs, clock>>
    /\ UNCHANGED notLimiterVars

\* await sleep(waitTime) is over, not before its time: this.requests.push(now)
\* with the 'now' read on entry, and the call returns
LimiterWake(c) ==
    /\ c \in 1..Len(calls)
    /\ calls[c].state = "sleeping"
    /\ clock >= calls[c].wakeAt
    /\ requests' = Append(requests, calls[c].now)
    /\ calls' = [calls EXCEPT ![c].state = "admitted", ![c].admittedAt = clock]
    /\ UNCHANGED <<maxRequests, windowMs, clock>>
    /\ UNCHANGED notLimiterVars

\* time passes
LimiterTick ==
    /\ clock < MaxClock
    /\ clock' = clock + 1
    /\ UNCHANGED <<maxRequests, windowMs, requests, calls>>
    /\ UNCHANGED notLimiterVars

LimiterNext ==
    \/ LimiterCall
    \/ \E c \in 1..MaxCalls : LimiterWake(c)
    \/ LimiterTick

SpecLimiter == LimiterInit /\ [][LimiterNext]_vars

(* ---- claims about the RateLimiter ---- *)
\* the calls that returned at a time in [from, from + windowMs)
AdmittedWithin(from) ==
    {c \in 1..Len(calls) :
        /\ calls[c].state = "admitted"
        /\ from <= calls[c].admittedAt
        /\ calls[c].admittedAt < from + windowMs}

\* a call that found the window full returns no earlier than the moment
\* the oldest entry it saw expires
AdmittedAfterOldestExpires ==
    \A c \in 1..Len(calls) :
        (calls[c].state = "admitted" /\ calls[c].oldest # -1)
            => calls[c].admittedAt >= calls[c].oldest + windowMs

\* C20: for every sequence of waitIfNeeded calls, sequential or overlapping,
\* at most maxRequests calls return within any time interval of length
\* windowMs, and a caller that arrives at a full window returns no earlier
\* than the moment the oldest entry expires.
C20_AtMostMaxRequestsPerWindow ==
    /\ \A from \in 0..MaxClock : Cardinality(AdmittedWithin(from)) <= maxRequests
    /\ AdmittedAfterOldestExpires

\* C20, the part that holds: a call that arrives at a full window is
\* suspended until the oldest entry has expired.
C20_WaitsForOldestEntry ==
    /\ AdmittedAfterOldestExpires
    /\ \A c \in 1..Len(calls) :
          calls[c].atCapacity => calls[c].oldest # -1

\* no call is made while another is suspended
Sequential ==
    \A c, e \in 1..Len(calls) :
        (c < e /\ calls[c].admittedAt # -1) => calls[c].admittedAt <= calls[e].now

\* sequential calls: the entry pushed after the wait is the time of arrival,
\* so the next caller waits less than a window after the last admission
C20_Witness_SequentialOverAdmission ==
    /\ maxRequests = 1
    /\ Len(calls) = 3
    /\ \A c \in 1..3 : calls[c].state = "admitted"
    /\ Sequential
    /\ \E from \in 0..MaxClock : Cardinality(AdmittedWithin(from)) > maxRequests

\* overlapping calls: callers suspended together wake together
C20_Witness_OverlappingOverAdmission ==
    /\ maxRequests = 1
    /\ \E c, e \in 1..Len(calls) :
          /\ c # e
          /\ calls[c].oldest # -1 /\ calls[e].oldest # -1
          /\ calls[c].state = "admitted" /\ calls[e].state = "admitted"
          /\ calls[c].admittedAt = calls[e].admittedAt

(* ---- the content filter and enrichment, checked under SpecHandler ---- *)
\* C21: no movie of a success envelope of GET /api/movies has a title that
\* contains, case-insensitively, "unrated", "18+", "xxx" or "adult", also
\* when details are included and enrichment replaced the listing's title.
C21_NoDisallowedTitleInEnvelope ==
    SuccessOfMovies =>
        \A i \in 1..Len(response.movies) : IsAllowedTitle(response.movies[i])

\* C21, the part that holds: without the detail stage the envelope has no
\* disallowed title, and with it none among the titles the listings had.
C21_ListingTitlesFiltered ==
    SuccessOfMovies =>
        /\ ~request.details =>
              \A i \in 1..Len(response.movies) : IsAllowedTitle(response.movies[i])
        /\ \A i \in 1..Len(Filtered) : IsAllowedTitle(Filtered[i])

\* a listing with an allowed title comes back under the adult title of its
\* detail page
C21_Witness_EnrichedTitleDisallowed ==
    /\ SuccessOfMovies /\ request.details
    /\ \E i \in 1..Len(response.movies) :
          /\ ~IsAllowedTitle(response.movies[i])
          /\ \E j \in 1..Len(Filtered) :
                /\ Filtered[j].link = response.movies[i].link
                /\ IsAllowedTitle(Filtered[j])

(***************************************************************************)
(* The search effect of the home page (app/page.tsx, Home).  The effect    *)
(* depends on debouncedQuery: the commit that changes debouncedQuery runs  *)
(* the previous effect's cleanup and then the effect body.  Each effect    *)
(* run that gets past the empty-query return creates one AbortController   *)
(* and makes one fetchSearch call; the call is suspended at 'await fetch'  *)
(* and at 'await response.json()', and a later step resumes it.            *)
(***************************************************************************)
MaxSearches == 3

\* what the search input can hold
HomeQueries ==
    {<<>>, <<" ">>, <<"a", "b">>, <<"a", "b", "c">>, <<"a", "b", "d">>}

\* AbortController.abort()
Abort(cs, id) == [cs EXCEPT ![id] = [aborted |-> TRUE]]

RunCleanup_Nothing(cs, id) == cs

\* the effect's cleanup: return () => { abortController.abort(); }
RunCleanup(cs, id) == IF id = 0 THEN cs ELSE Abort(cs, id)

\* "Abort previous search if any"
AbortPrevious(cs) == IF searchAbortRef # 0 THEN Abort(cs, searchAbortRef) ELSE cs

\* the body the server sends for a query: data.movies
MoviesFor(q) == <<[answers |-> q]>>

HomeInit ==
    /\ searchQuery = <<>>
    /\ debouncedQuery = <<>>
    /\ searchResults = [from |-> "initial", movies |-> <<>>]
    /\ isSearching = FALSE
    /\ showSearchResults = FALSE
    /\ controllers = <<>>
    /\ searchAbortRef = 0
    /\ effectCleanup = 0
    /\ searches = <<>>
    /\ RetryIdle
    /\ DedupeIdle
    /\ LinksIdle
    /\ BatchIdle
    /\ HandlerIdle
    /\ QualityIdle
    /\ LimiterIdle
    /\ ParserIdle
    /\ MergeIdle

\* onChange of the search input: setSearchQuery(e.target.value)
HomeType ==
    \E q \in HomeQueries :
        /\ q # searchQuery
        /\ searchQuery' = q
        /\ UNCHANGED <<debouncedQuery, searchResults, isSearching,
                       showSearchResults, controllers, searchAbortRef,
                       effectCleanup, searches>>
        /\ UNCHANGED notHomeVars

\* clearSearch
HomeClearSearch ==
    /\ searchQuery' = <<>>
    /\ searchResults' = [from |-> "cleared", movies |-> <<>>]
    /\ showSearchResults' = FALSE
    /\ UNCHANGED <<debouncedQuery, isSearching, controllers, searchAbortRef,
                   effectCleanup, searches>>
    /\ UNCHANGED notHomeVars

\* useDebounce hands over the settled searchQuery; the effect on
\* [debouncedQuery] runs: cleanup of the previous run, then the body, which
\* calls fetchSearch up to its first await
HomeDebounce ==
    /\ searchQuery # debouncedQuery
    /\ debouncedQuery' = searchQuery
    /\ LET cleaned == RunCleanup(controllers, effectCleanup)
           id == Len(controllers) + 1
       IN  IF Trim(searchQuery) = <<>>
             THEN /\ controllers' = cleaned
                  /\ showSearchResults' = FALSE
                  /\ searchResults' = [from |-> "effect", movies |-> <<>>]
                  /\ effectCleanup' = 0
                  /\ UNCHANGED <<isSearching, searchAbortRef, searches>>
             ELSE /\ Len(controllers) < MaxSearches
                  /\ controllers' = Append(AbortPrevious(cleaned), [aborted |-> FALSE])
                  /\ searchAbortRef' = id
                  /\ effectCleanup' = id
                  /\ IF Len(Trim(searchQuery)) < 3
                       THEN /\ searchResults' = [from |-> "short", movies |-> <<>>]
                            /\ searches' = Append(searches,
                                   [query |-> searchQuery, pc |-> "done",
                                    outcome |-> "short"])
                            /\ UNCHANGED <<isSearching, showSearchResults>>
                       ELSE /\ isSearching' = TRUE
                            /\ showSearchResults' = TRUE
                            /\ searches' = Append(searches,
                                   [query |-> searchQuery, pc |-> "fetch",
                                    outcome |-> "pending"])
                            /\ UNCHANGED searchResults
    /\ UNCHANGED searchQuery
    /\ UNCHANGED notHomeVars

\* how a suspended fetchSearch call leaves the try block
FinishSearch(id, outcome) ==
    /\ searches' = [searches EXCEPT ![id].pc = "done", ![id].outcome = outcome]
    /\ isSearching' = FALSE

\* 'await fetch(...)' settles: AbortError when the signal is aborted, else a
\* response (ok or not) or a network failure
HomeFetchSettles(id) ==
    /\ searches[id].pc = "fetch"
    /\ IF controllers[id].aborted
         THEN /\ FinishSearch(id, "aborted")
              /\ UNCHANGED searchResults
         ELSE \E ok \in BOOLEAN :
                IF ok
                  THEN /\ searches' = [searches EXCEPT ![id].pc = "json"]
                       /\ UNCHANGED <<searchResults, isSearching>>
                  ELSE /\ FinishSearch(id, "failed")
                       /\ searchResults' = [from |-> "error", movies |-> <<>>]
    /\ UNCHANGED <<searchQuery, debouncedQuery, showSearchResults, controllers,
                   searchAbortRef, effectCleanup>>
    /\ UNCHANGED notHomeVars

\* 'await response.json()' settles: AbortError when the signal is aborted,
\* else the parsed body, which is stored
HomeJsonSettles(id) ==
    /\ searches[id].pc = "json"
    /\ IF controllers[id].aborted
         THEN /\ FinishSearch(id, "aborted")
              /\ UNCHANGED searchResults
         ELSE /\ FinishSearch(id, "stored")
              /\ searchResults' = [from |-> "response", search |-> id,
                                   movies |-> MoviesFor(searches[id].query)]
    /\ UNCHANGED <<searchQuery, debouncedQuery, showSearchResults, controllers,
                   searchAbortRef, effectCleanup>>
    /\ UNCHANGED notHomeVars

HomeNext ==
    \/ HomeType
    \/ HomeClearSearch
    \/ HomeDebounce
    \/ \E id \in 1..Len(searches) : HomeFetchSettles(id)
    \/ \E id \in 1..Len(searches) : HomeJsonSettles(id)

SpecHome == HomeInit /\ [][HomeNext]_vars

\* a fetchSearch call still suspended at one of its awaits
Suspended(id) == searches[id].pc \in {"fetch", "json"}

\* every suspended call but the one of the current effect run is aborted
SupersededAborted ==
    \A id \in 1..Len(searches) :
        Suspended(id) /\ id # effectCleanup => controllers[id].aborted

\* a step that stores a response stores the answer to the debounced query
StoresLatestOnly ==
    (searchResults' # searchResults /\ searchResults'.from = "response") =>
        searchResults'.movies = MoviesFor(debouncedQuery')

ValidPairs(pairs) ==
    {i \in 1..Len(pairs) :
        /\ sanitizeText(pairs[i].label) # <<>>
        /\ pairs[i].href # <<>>
        /\ sanitizeText(pairs[i].linkText) # <<>>}

DistinctLabels(links) ==
    \A i, j \in 1..Len(links) : links[i].label = links[j].label => i = j

Parsed9x == LinksReturned /\ detailPage.site = "9xmoviie"

\* C23: the 9xMoviie detail parser returns exactly one download link for
\* every (label div, link div) pair whose label, href and link text are
\* non-empty, and the labels of the returned links are pairwise distinct,
\* also when the same normalized label occurs three or more times.
C23_OneLinkPerPairDistinctLabels ==
    Parsed9x =>
        /\ Len(downloadLinks[1]) = Cardinality(ValidPairs(detailPage.page))
        /\ DistinctLabels(downloadLinks[1])

\* C23, the part that holds: one link per valid pair, in page order
C23_OneLinkPerValidPair ==
    Parsed9x =>
        /\ Len(downloadLinks[1]) = Cardinality(ValidPairs(detailPage.page))
        /\ \A i \in 1..Len(downloadLinks[1]) :
              \E k \in ValidPairs(detailPage.page) :
                  /\ detailPage.page[k].href = downloadLinks[1][i].url
                  /\ Cardinality({m \in ValidPairs(detailPage.page) : m <= k}) = i

\* the second and the third occurrence of a label both come back as
\* "<label> Backup"
C23_Witness_ThirdRepeatSameLabel ==
    /\ Parsed9x
    /\ Len(downloadLinks[1]) = 3
    /\ downloadLinks[1][1].label # downloadLinks[1][2].label
    /\ downloadLinks[1][2].label = downloadLinks[1][3].label

(* ---- the order of the download links, checked under SpecLinks ---- *)
\* the links the extractor collected, in the order it pushed them
CollectedLinks ==
    IF detailPage.site = "skybap"
      THEN collectDownloadLinks(detailPage.page)
      ELSE CollectFilmyWap(detailPage.page,
                           [links |-> <<>>, processedUrls |-> {}]).links

Sorted == LinksReturned /\ detailPage.site \in {"skybap", "filmywap"}

\* the place of a label's first resolution token in the priority list; the
\* length of the list for a label without token
Priority(link) ==
    IF QualityIndex(link.label) = -1
      THEN Len(linkQualityOrder)
      ELSE QualityIndex(link.label)

Occurrences(links, x) == Cardinality({i \in 1..Len(links) : links[i] = x})

IsPermutation(a, b) ==
    /\ Len(a) = Len(b)
    /\ \A i \in 1..Len(a) : Occurrences(a, a[i]) = Occurrences(b, a[i])

\* the place of a link in the collected list (urls are unique there)
PlaceOf(link) == CHOOSE i \in 1..Len(CollectedLinks) : CollectedLinks[i] = link

\* C24: the list returned by extractDownloadLinks (SkyBap, FilmyWap) is
\* ordered by the priority 4K, 2160p, 1440p, 1080p, 720p, 480p, 360p of the
\* labels' resolution tokens; links of equal token keep their relative
\* order; links without token follow all ranked links in their original
\* order; and the list is a permutation of the links collected.
C24_SortedStablePermutation ==
    Sorted =>
        LET out == downloadLinks[1]
        IN  /\ IsPermutation(out, CollectedLinks)
            /\ \A i, j \in 1..Len(out) :
                  i < j =>
                    /\ Priority(out[i]) <= Priority(out[j])
                    /\ Priority(out[i]) = Priority(out[j])
                          => PlaceOf(out[i]) < PlaceOf(out[j])

\* the sort moved a ranked link in front of an unranked one
C24_Witness_RankedMovedFirst ==
    /\ Sorted
    /\ Len(downloadLinks[1]) = 2
    /\ downloadLinks[1] # CollectedLinks
    /\ QualityIndex(downloadLinks[1][1].label) # -1
    /\ QualityIndex(downloadLinks[1][2].label) = -1

(***************************************************************************)
(* The listing item parsers: parseMovieElement (utils/scraper.ts),         *)
(* parsePopularMovieElementSkyBap and parseLatestMovieElementSkyBap        *)
(* (utils/skybap.ts), parse9xMovieElement (utils/nineXMovieScraper.ts),    *)
(* each with the loop of its caller, which pushes the non-null results.    *)
(* An element is what the parser reads of it: whether it holds the link    *)
(* (and, for 9xMoviie, the a.thumbtitle), the href attribute and the text. *)
(* Texts are sequences of single characters, so Len is String.length.      *)
(***************************************************************************)
MaxElements == 2

ItemParsers ==
    {"parseMovieElement", "parsePopularMovieElementSkyBap",
     "parseLatestMovieElementSkyBap", "parse9xMovieElement"}

ItemHrefs ==
    {<<>>, <<"https://", "h", "/", "m">>, <<"http", "x">>, <<"/", "m">>, <<"m">>}

ItemTexts ==
    {<<>>, <<" ">>, <<"a">>, <<"x", ">", " ", "b">>, <<"a", "b">>,
     <<" ", "a", "\n", "b", " ">>}

\* the elements: well-formed ones with every href and text, one without
\* link, one without a.thumbtitle, and one on which a cheerio call throws
Elements ==
    [hasLink : {TRUE}, hasTitleLink : {TRUE}, throws : {FALSE},
     href : ItemHrefs, text : ItemTexts]
    \cup {[hasLink |-> FALSE, hasTitleLink |-> TRUE, throws |-> FALSE,
           href |-> <<>>, text |-> <<>>],
          [hasLink |-> TRUE, hasTitleLink |-> FALSE, throws |-> FALSE,
           href |-> <<"/", "m">>, text |-> <<>>],
          [hasLink |-> TRUE, hasTitleLink |-> TRUE, throws |-> TRUE,
           href |-> <<"/", "m">>, text |-> <<"a", "b">>]}

\* href.startsWith("http")
StartsWithHttp(href) ==
    href # <<>> /\ Head(href) \in {"https://", "http://", "http"}

\* the object a parser returns: title, link and the quality, when the
\* extractor finds one in title + " " + fullLink
ParsedItem(title, fullLink, withQuality) ==
    LET quality == IF withQuality
                     THEN extractQualityFromText("scraper.ts",
                                                 title \o <<" ">> \o fullLink)
                     ELSE Undefined
    IN  Movie(title, fullLink, IF Falsy(quality) THEN Undefined ELSE quality)

\* a parser's result: <<movie>>, or <<>> for null.  fullLink is the
\* parser's own way to complete a relative href.
ParseItem(e, fullLink, minTitle, withQuality) ==
    LET title == sanitizeText(e.text)
    IN  IF e.throws \/ ~e.hasLink \/ e.href = <<>> \/ e.text = <<>>
          THEN <<>>
          ELSE IF title = <<>> \/ Len(title) < minTitle
                 THEN <<>>
                 ELSE IF ~validateUrl(fullLink)
                        THEN <<>>
                        ELSE <<ParsedItem(title, fullLink, withQuality)>>

parseMovieElement(e, baseUrl) ==
    ParseItem(e, IF StartsWithHttp(e.href) THEN e.href ELSE baseUrl \o e.href,
              2, TRUE)

parsePopularMovieElementSkyBap(e, baseUrl) ==
    ParseItem(e, IF StartsWithHttp(e.href) THEN e.href
                                           ELSE baseUrl \o <<"/">> \o e.href,
              2, TRUE)

parseLatestMovieElementSkyBap(e, baseUrl) ==
    ParseItem(e, IF StartsWithHttp(e.href) THEN e.href
                 ELSE IF StartsWith(e.href, "/") THEN baseUrl \o e.href
                 ELSE baseUrl \o <<"/">> \o e.href,
              2, TRUE)

\* parse9xMovieElement takes the title from a.thumbtitle and tests only
\* '!href || !title'
parse9xMovieElement(e) ==
    IF ~e.hasTitleLink
      THEN <<>>
      ELSE ParseItem(e, IF StartsWithHttp(e.href) THEN e.href
                                                  ELSE NineXBaseUrl \o e.href,
                     1, FALSE)

ParseWith(parser, e) ==
    CASE parser = "parseMovieElement" -> parseMovieElement(e, DefaultSkyBapUrl)
      [] parser = "parsePopularMovieElementSkyBap" ->
             parsePopularMovieElementSkyBap(e, DefaultSkyBapUrl)
      [] parser = "parseLatestMovieElementSkyBap" ->
             parseLatestMovieElementSkyBap(e, DefaultSkyBapUrl)
      [] parser = "parse9xMovieElement" -> parse9xMovieElement(e)

\* the caller's loop: every element is parsed, the non-null results are
\* pushed in page order
RECURSIVE ParseElements(_, _)
ParseElements(parser, elements) ==
    IF elements = <<>>
      THEN <<>>
      ELSE ParseWith(parser, Head(elements)) \o ParseElements(parser, Tail(elements))

ParserInit ==
    /\ itemParser \in ItemParsers
    /\ itemElements \in UNION {[1..n -> Elements] : n \in 0..MaxElements}
    /\ itemMovies = <<>>
    /\ RetryIdle
    /\ DedupeIdle
    /\ LinksIdle
    /\ BatchIdle
    /\ HandlerIdle
    /\ QualityIdle
    /\ LimiterIdle
    /\ HomeIdle
    /\ MergeIdle

ScrapeWith(parser) ==
    /\ itemParser = parser
    /\ itemMovies = <<>>
    /\ itemMovies' = <<ParseElements(parser, itemElements)>>
    /\ UNCHANGED <<itemParser, itemElements>>
    /\ UNCHANGED notParserVars

\* searchMoviesSkyBap and searchMovies
ScrapeSearch == ScrapeWith("parseMovieElement")

\* scrapePopularMoviesSkyBap
ScrapePopular == ScrapeWith("parsePopularMovieElementSkyBap")

\* scrapeLatestMoviesSkyBap
ScrapeLatest == ScrapeWith("parseLatestMovieElementSkyBap")

\* scrape9xMovieMovies
Scrape9x == ScrapeWith("parse9xMovieElement")

ParserNext == ScrapeSearch \/ ScrapePopular \/ ScrapeLatest \/ Scrape9x

SpecParser == ParserInit /\ [][ParserNext]_vars

ItemsParsed == itemMovies # <<>>

\* what the statement asks of an item for it to become a listing: a link
\* with an href, a title of at least two characters once sanitized
Listable(e) ==
    /\ ~e.throws /\ e.hasLink /\ e.href # <<>>
    /\ itemParser = "parse9xMovieElement" => e.hasTitleLink
    /\ Len(sanitizeText(e.text)) >= 2
    /\ ParseWith(itemParser, e) # <<>>

\* C25: every listing an item parser returns has a sanitized title of at
\* least two characters and a link that is a valid URL; an item without
\* title or href, with a shorter title or with an invalid URL yields null
\* and does not keep the other items of the page from being parsed.
C25_ListingsHaveTitleAndValidLink ==
    ItemsParsed =>
        /\ \A i \in 1..Len(itemMovies[1]) :
              /\ Len(itemMovies[1][i].title) >= 2
              /\ itemMovies[1][i].title = sanitizeText(itemMovies[1][i].title)
              /\ validateUrl(itemMovies[1][i].link)
        /\ Len(itemMovies[1]) =
              Cardinality({k \in 1..Len(itemElements) : Listable(itemElements[k])})

\* C25, the part that holds: every listing has a non-empty sanitized title
\* and a valid link, and the three SkyBap parsers return no title shorter
\* than two characters
C25_NonEmptyTitleAndValidLink ==
    ItemsParsed =>
        \A i \in 1..Len(itemMovies[1]) :
            /\ Len(itemMovies[1][i].title) >= 1
            /\ validateUrl(itemMovies[1][i].link)
            /\ itemParser # "parse9xMovieElement"
                  => Len(itemMovies[1][i].title) >= 2

\* the 9xMoviie parser returns a listing with a one-character title
C25_Witness_OneCharTitle9x ==
    /\ ItemsParsed
    /\ itemParser = "parse9xMovieElement"
    /\ \E i \in 1..Len(itemMovies[1]) : Len(itemMovies[1][i].title) = 1

(* ---- the query handed to the adapters, checked under SpecHandler ---- *)
SearchOps == {"search9x", "searchSkyBap", "searchMovies"}

\* the handler called a search adapter (with sanitizedQuery)
SearchAdapterCalled ==
    \E k \in 1..Len(sources) : sources[k].op \in SearchOps

\* the search parameter is given and is empty, or is shorter than two
\* characters once sanitized
TooShortOnceSanitized ==
    request.search.present /\ QueryLength(sanitizedQuery) < MinQueryLength

\* C26: every query handed to an adapter's search is non-empty and has a
\* length between 2 and 100 once sanitized; a search parameter that is
\* empty, or that becomes empty or shorter than 2 characters once sanitized,
\* is rejected with VALIDATION_ERROR and no adapter is called or retried.
C26_SanitizedQueryChecked ==
    /\ SearchAdapterCalled =>
          /\ QueryLength(sanitizedQuery) >= MinQueryLength
          /\ QueryLength(sanitizedQuery) <= MaxQueryLength
    /\ (Answered /\ TooShortOnceSanitized) =>
          (IsValidationError400 /\ sources = <<>>)

\* C26, the part that holds: the length of the raw parameter is checked;
\* a search adapter is only called with a parameter of 2 to 100 characters,
\* and a non-empty parameter outside that range is rejected with
\* VALIDATION_ERROR without any adapter call, unless the base URL lookup
\* of /api/movies failed first.
C26_RawQueryChecked ==
    /\ SearchAdapterCalled =>
          /\ QueryLength(request.search.text) >= MinQueryLength
          /\ QueryLength(request.search.text) <= MaxQueryLength
          /\ QueryLength(sanitizedQuery) <= MaxQueryLength
    /\ (Answered /\ HasSearch
          /\ QueryLengthError(request.search.text) # NoError) =>
          /\ IsValidationError400 \/ response.kind = "escaped"
          /\ sources = <<>>

\* a query of two blanks passed the length check, reached the 9xMoviie
\* search empty, and the adapter's "cannot be empty" error was retried
\* until withRetry gave up
C26_Witness_EmptyQueryRetried ==
    /\ Answered /\ request.route = "movies"
    /\ sanitizedQuery = <<>> /\ HasSearch
    /\ \E k \in 1..Len(sources) :
          /\ sources[k].op = "search9x"
          /\ sources[k].state = "rejected"
          /\ sources[k].error = ExhaustedError(
                 ScrapingError("Search query cannot be empty", 500, NoError))

(***************************************************************************)
(* The enrichment merge: the processor each fetch...DetailsWithConcurrency *)
(* hands to processMoviesWithConcurrency, for SkyBap (utils/skybap.ts and  *)
(* the route handlers), 9xMoviie (movies/route.ts) and FilmyWap.  The      *)
(* processor fetches the detail page inside withRetry and merges what it   *)
(* got into the listing; when the fetch fails it returns the listing.      *)
(***************************************************************************)
MergeSources == {"skybap", "9xmoviie", "filmywap"}

\* the listings: the SkyBap and FilmyWap item parsers set quality when the
\* extractor finds one, parse9xMovieElement never does
MergeListings(source) ==
    {Movie(<<"M">>, <<"https://", source, "/", "m">>, q) :
        q \in IF source = "9xmoviie" THEN {Undefined} ELSE {Undefined, "720P", "HD"}}

\* what the detail fetch comes to: the page's values, a failure after the
\* retries, or (9xMoviie) a page without Movie Information section
MergeFetches ==
    [kind : {"details"}, title : {<<>>, <<"M">>, <<"M", " ", "2">>},
     quality : {Undefined, "", "480P", "720P"}, size : {Undefined, "2GB"},
     downloadLinks : {<<>>, <<[label |-> <<"Link">>, url |-> <<"https://", "dl">>]>>}]
    \cup {[kind |-> "failed"], [kind |-> "null"]}

\* FilmyWap: title and quality are taken from details when truthy
MergeFilmyWap(movie, details) ==
    [movie EXCEPT
       !.downloadLinks = <<details.downloadLinks>>,
       !.title = IF details.title # <<>> THEN details.title ELSE @,
       !.quality = IF ~Falsy(details.quality) THEN details.quality ELSE @]

MergeInit ==
    /\ mergeSource \in MergeSources
    /\ mergeListing \in MergeListings(mergeSource)
    /\ mergeFetch \in MergeFetches
    /\ mergeFetch.kind = "null" => mergeSource = "9xmoviie"
    /\ mergeResult = <<>>
    /\ RetryIdle
    /\ DedupeIdle
    /\ LinksIdle
    /\ BatchIdle
    /\ HandlerIdle
    /\ QualityIdle
    /\ LimiterIdle
    /\ HomeIdle
    /\ ParserIdle

ProcessorReturns(source, movie) ==
    /\ mergeSource = source
    /\ mergeResult = <<>>
    /\ mergeResult' = <<movie>>
    /\ UNCHANGED <<mergeSource, mergeListing, mergeFetch>>
    /\ UNCHANGED notMergeVars

\* the processor of fetchMovieDetailsWithConcurrency (skybap.ts) and of
\* fetchSkyBapDetailsWithConcurrency
ProcessSkyBap ==
    ProcessorReturns("skybap",
        IF mergeFetch.kind = "details"
          THEN MergeSkyBap(mergeListing, mergeFetch)
          ELSE mergeListing)

\* the processor of fetch9xMovieDetailsWithConcurrency
Process9x ==
    ProcessorReturns("9xmoviie",
        IF mergeFetch.kind = "details"
          THEN Merge9x(mergeListing, NineXDetails(mergeListing.link, mergeFetch))
          ELSE mergeListing)

\* the processor of fetchMovieDetailsWithConcurrencyFilmyWap
ProcessFilmyWap ==
    ProcessorReturns("filmywap",
        IF mergeFetch.kind = "details"
          THEN MergeFilmyWap(mergeListing, mergeFetch)
          ELSE mergeListing)

MergeNext == ProcessSkyBap \/ Process9x \/ ProcessFilmyWap

SpecMerge == MergeInit /\ [][MergeNext]_vars

\* the listing was enriched successfully
Enriched == mergeResult # <<>> /\ mergeFetch.kind = "details"

\* the listing's quality is kept; the page's is used when the listing has none
ListingQualityPreferred ==
    /\ ~Falsy(mergeListing.quality) =>
          mergeResult[1].quality = mergeListing.quality
    /\ (Falsy(mergeListing.quality) /\ ~Falsy(mergeFetch.quality)) =>
          mergeResult[1].quality = mergeFetch.quality

\* the other fields the page has override the listing's
OtherFieldsOverride ==
    /\ mergeFetch.title # <<>> => mergeResult[1].title = mergeFetch.title
    /\ mergeResult[1].downloadLinks = <<mergeFetch.downloadLinks>>
    /\ (mergeSource # "filmywap" /\ ~Falsy(mergeFetch.size)) =>
          mergeResult[1].size = mergeFetch.size

\* C27: in the enrichment merge of every source a listing's quality is
\* preferred over the detail page's: a listing with a quality keeps it when
\* enriched, the page's quality is used only when the listing has none, and
\* all other fields present on the detail page override the listing's.
C27_ListingQualityPreferredEverywhere ==
    Enriched => (ListingQualityPreferred /\ OtherFieldsOverride)

\* C27, the part that holds: the SkyBap and 9xMoviie merges
C27_ListingQualityPreferredSkyBap9x ==
    (Enriched /\ mergeSource # "filmywap")
        => (ListingQualityPreferred /\ OtherFieldsOverride)

\* a FilmyWap listing with a quality comes back with the page's quality
C27_Witness_FilmyWapDetailQualityWins ==
    /\ Enriched /\ mergeSource = "filmywap"
    /\ mergeListing.quality = "720P"
    /\ mergeFetch.quality = "480P"
    /\ mergeResult[1].quality = "480P"

(***************************************************************************)
(* Termination of processMoviesWithConcurrency.  Timers expire and every   *)
(* processor call settles: each step of the function that can be taken is  *)
(* taken eventually.                                                       *)
(***************************************************************************)
SpecBatchFair == BatchInit /\ [][BatchNext]_vars /\ WF_vars(BatchNext)

BatchDone == batchPc = "done"

\* the processor was called exactly once for every item, with its index
CalledOncePerItem ==
    /\ Len(processorCalls) = Len(items)
    /\ \A k \in 1..Len(items) :
          \E c \in 1..Len(processorCalls) :
              processorCalls[c] = [item |-> items[k], index |-> k - 1]

\* C28: for every finite list and every concurrencyLimit, 0 and limits
\* larger than the list included, processMoviesWithConcurrency terminates,
\* provided every processor call settles, and it has then called the
\* processor exactly once per item, with the item's index.
C28_TerminatesCallingEachItemOnce ==
    <>BatchDone /\ [](BatchDone => CalledOncePerItem)

\* C28, the part that holds: termination for a limit of at least 1 or an
\* empty list, and one call per item whenever the function returns
C28_TerminatesForPositiveLimit ==
    /\ (concurrencyLimit >= 1 \/ items = <<>>) => <>BatchDone
    /\ [](BatchDone => CalledOncePerItem)

\* with limit 0 and a non-empty list the loop is back at its head with i
\* unchanged, after an empty batch and the pause between batches
C28_Witness_EmptyBatchLoopsBack ==
    /\ concurrencyLimit = 0 /\ items # <<>>
    /\ batchPc = "pause"
    /\ batchStart = 0
    /\ processorCalls = <<>>

(* ---- the success envelope of GET /api/movies, checked under SpecHandler ---- *)
\* the list handed to dedupeMoviesByTitleHighestQuality
BeforeDedupe == IF DetailStageRan THEN detailedMovies ELSE Filtered

\* C29: in every success envelope of GET /api/movies, total is the number
\* of movies after dedupe, nextPage is present exactly when hasMore is true
\* and is then the requested page + 1, and the headers X-Movies-Found and
\* X-Has-More carry total and hasMore.
C29_EnvelopeCountsAndNextPage ==
    SuccessOfMovies =>
        /\ response.movies = dedupeMoviesByTitleHighestQuality(BeforeDedupe)
        /\ response.total = Len(response.movies)
        /\ response.hasMore = hasMore
        /\ response.nextPage.present <=> response.hasMore
        /\ response.hasMore => response.nextPage.value = page + Num(1)
        /\ (response.hasMore /\ request.page = "2") =>
              response.nextPage.value = Num(3)
        /\ response.xMoviesFound = response.total
        /\ response.xHasMore = response.hasMore

\* page 2 was asked for, 9xMoviie reported more, and the envelope counts
\* the movies that are left after the detail stage and dedupe
C29_Witness_SecondPageHasMore ==
    /\ SuccessOfMovies
    /\ request.page = "2"
    /\ response.hasMore
    /\ response.nextPage = [present |-> TRUE, value |-> Num(3)]
    /\ response.total > 0
    /\ response.xMoviesFound = response.total

(* ---- the page parameter, checked under SpecHandler ---- *)
\* numbers are kept in halves: the integers are the even values
IsInteger(n) == n % 2 = 0

\* the handler pushed the two SkyBap listing calls
SkyBapListed ==
    \E k \in 1..Len(sources) : sources[k].op \in {"popularSkyBap", "latestSkyBap"}

LatestAnswered ==
    Answered /\ request.route = "movies" /\ ~HasSearch /\ sources # <<>>

\* C30: whatever the page parameter is (absent, non-numeric, 0, negative,
\* fractional, a positive integer), the effective page is an integer of at
\* least 1, the SkyBap listings are fetched exactly when the effective page
\* is 1, and nextPage, when emitted, is an integer of at least 2.
C30_EffectivePagePositiveInteger ==
    LatestAnswered =>
        /\ IsInteger(page) /\ page >= Num(1)
        /\ SkyBapListed <=> page = Num(1)
        /\ (response.kind = "success" /\ response.nextPage.present) =>
              /\ IsInteger(response.nextPage.value)
              /\ response.nextPage.value >= Num(2)

\* C30, the part that holds: an absent, non-numeric or zero parameter gives
\* page 1, a positive integer gives itself, the SkyBap listings are fetched
\* exactly when page is 1, and nextPage is page + 1.
C30_PageDefaultsToOne ==
    LatestAnswered =>
        /\ request.page \in {"absent", "abc", "0", "1"} => page = Num(1)
        /\ request.page = "2" => page = Num(2)
        /\ SkyBapListed <=> page = Num(1)
        /\ (response.kind = "success" /\ response.nextPage.present) =>
              response.nextPage.value = page + Num(1)

\* page=-1 is served from the 9xMoviie home page and answered with nextPage 0
C30_Witness_NegativePage ==
    /\ LatestAnswered
    /\ request.page = "-1"
    /\ page = Num(-1)
    /\ ~SkyBapListed
    /\ response.kind = "success"
    /\ response.nextPage = [present |-> TRUE, value |-> Num(0)]
====
